---- MODULE Spec2Model ----
(***************************************************************************)
(* kidsCalendar: the in-memory family state of App.tsx on each device, the *)
(* remote store (children / tasks / rewards tables with their primary and  *)
(* foreign keys), the fire-and-forget pushes between them, the full        *)
(* re-fetch, uploadFamilyData, the child-portal task lifecycle and the     *)
(* TaskTimer countdown.                                                    *)
(*                                                                         *)
(* Identifiers: the code builds every id from Date.now() (`c_<ms>`,        *)
(* `task_<ms>`, `r_<ms>`, `redemption_<ms>`); an id is modelled by that    *)
(* number, so two writers that create an entity in the same millisecond    *)
(* get the same id, as in the code.                                        *)
(* The fields name/avatar/age/level/love_languages of a child are carried  *)
(* by `name`; title/description/reward/time/duration/type/emoji/recurrence *)
(* and the audio columns of a task by `title`; title/category/image/type   *)
(* of a reward by `title`.  They are always read and written together.     *)
(***************************************************************************)
EXTENDS Integers, Sequences, FiniteSets, TLC

VARIABLES
    now,            \* Date.now(), in milliseconds
    currentUser,    \* [device -> NoUser or the signed-in account]
    children,       \* [device -> Seq(Child)]: useState<Child[]> of App
    remoteChildren, \* public.children, rows in table order
    remoteTasks,    \* public.tasks
    remoteRewards,  \* public.rewards
    net,            \* requests issued with .then(...) and not yet executed
    fetching,       \* [device -> results of family queries not yet applied]
    taskForm,       \* [device -> ParentDashboard task modal state]
    childForm,      \* [device -> ParentSettings child modal state]
    uploads,        \* [run -> position of one uploadFamilyData call]
    timer,          \* the TaskTimer component of the child portal
    storage,        \* [device -> localStorage: the snapshot and the migration flag]
    migration,      \* [device -> position of migrateLocalStorageToSupabase]
    shown,          \* the time text last rendered by displayTime
    notified,       \* [device -> ids of the tasks the last alarm poll notified]
    out             \* what the last step returned or logged

vars == <<now, currentUser, children, remoteChildren, remoteTasks,
          remoteRewards, net, fetching, taskForm, childForm, uploads,
          timer, storage, migration, shown, notified, out>>

-----------------------------------------------------------------------------
(* Bounds of the model *)

\* number of times the clock advances
MaxTicks == 1
\* largest star balance explored
MaxStars == 3
\* longest redemption history explored
MaxHistory == 2
\* most requests in flight at once
MaxNet == 1
\* most un-applied family query results per device
MaxFetch == 1
\* most children / tasks / rewards held in one list
MaxItems == 2

\* milliseconds by which one clock step advances
ClockStep == 5000
\* how long a TaskTimer is watched, in milliseconds
MaxElapsed == 61000

Devices == {"A", "B"}
Runs == {"u1", "u2"}
Names == {"n1", "n2"}
\* the cost typed when a reward is repriced: parseInt(e.target.value) || 0 takes
\* any integer
Costs == {-1}
Notes == {"note"}
Statuses == {"pending", "active", "done"}

\* minutes of a day, milliseconds of a minute
MinutesPerDay == 1440
MsPerMinute == 60000

\* A text is the sequence of its characters; a duration text is taken by its
\* number.
Digits == <<"0", "1", "2", "3", "4", "5", "6", "7", "8", "9">>
IsDigit(ch) == \E i \in 1..10 : Digits[i] = ch
DigitValue(ch) == (CHOOSE i \in 1..10 : Digits[i] = ch) - 1
Whitespace == {" "}
AM == <<"A", "M">>
PM == <<"P", "M">>

\* String.prototype.toUpperCase over the letters the model types
ToUpperCase(s) ==
    [i \in 1..Len(s) |-> CASE s[i] = "a" -> "A"
                           [] s[i] = "m" -> "M"
                           [] s[i] = "p" -> "P"
                           [] s[i] = "x" -> "X"
                           [] OTHER -> s[i]]

\* String.prototype.trim
RECURSIVE Trim(_)
Trim(s) ==
    IF s = <<>> THEN s
    ELSE IF Head(s) \in Whitespace THEN Trim(Tail(s))
    ELSE IF s[Len(s)] \in Whitespace THEN Trim(SubSeq(s, 1, Len(s) - 1))
    ELSE s

\* String.prototype.includes
Includes(s, sub) ==
    \E i \in 1..(Len(s) - Len(sub) + 1) : SubSeq(s, i, i + Len(sub) - 1) = sub

\* s.split(sep) for a separator that is one character of seps: the pieces
\* between separators, empty pieces included
RECURSIVE Split(_, _)
Split(s, seps) ==
    IF \A i \in 1..Len(s) : s[i] \notin seps THEN <<s>>
    ELSE LET i == CHOOSE k \in 1..Len(s) :
                      s[k] \in seps /\ \A j \in 1..(k - 1) : s[j] \notin seps
         IN  <<SubSeq(s, 1, i - 1)>> \o Split(SubSeq(s, i + 1, Len(s)), seps)

\* s.split(/\s+/) of a trimmed text: a run of whitespace separates once
SplitSpaces(s) == SelectSeq(Split(s, Whitespace), LAMBDA piece : piece # <<>>)

\* the value Number() gives for a text that is not numeric
NaN == -1

\* Number(text): 0 for the empty text, the value of a decimal numeral, NaN for
\* anything else
RECURSIVE Numeral(_)
Numeral(s) == IF s = <<>> THEN 0 ELSE 10 * Numeral(SubSeq(s, 1, Len(s) - 1)) + DigitValue(s[Len(s)])
ToNumber(text) ==
    LET s == Trim(text)
    IN  IF \A i \in 1..Len(s) : IsDigit(s[i]) THEN Numeral(s) ELSE NaN

\* a parser that drops what follows the hour
AlwaysZero(n) == 0

\* n || 0
OrZero(n) == IF n = NaN THEN 0 ELSE n

\* the time texts typed into the task modal
NineAM == <<"0", "9", ":", "0", "0", " ", "A", "M">>
BadMinute == <<"9", ":", "6", "1">>
Times == {NineAM, BadMinute}
Durations == {0, 1}
Titles == Names \cup {""}

NoUser == [id |-> "", familyId |-> ""]
FamilyUser(d) == [id |-> d, familyId |-> "fam"]
NoTime == 0
StartOfTime == 2 * ClockStep

-----------------------------------------------------------------------------
(* Sequence helpers standing for Array.map / filter / find / some *)

Range(s) == {s[i] : i \in 1..Len(s)}
MapSeq(s, F(_)) == [i \in 1..Len(s) |-> F(s[i])]
FilterSeq(s, P(_)) == SelectSeq(s, P)
HasId(s, id) == \E i \in 1..Len(s) : s[i].id = id
Find(s, id) == s[CHOOSE i \in 1..Len(s) : s[i].id = id /\ \A j \in 1..(i-1) : s[j].id # id]
Ids(s) == {s[i].id : i \in 1..Len(s)}
CountId(s, id) == Cardinality({i \in 1..Len(s) : s[i].id = id})

-----------------------------------------------------------------------------
(* The remote store *)

\* The stored family graph at start: two children created earlier by the app,
\* the first with one task and two rewards, the second with two tasks.
InitialChildren ==
    <<[id |-> 1, name |-> "n1", stars |-> MaxStars, active |-> TRUE],
      [id |-> 2, name |-> "n2", stars |-> 1, active |-> FALSE]>>
\* recurrence: undefined on a task and NULL in a row
NoRecurrence == [frequency |-> "none", days |-> {}, dayOfMonth |-> 0]

InitialTasks ==
    <<[id |-> 1, child_id |-> 1, title |-> "n1", time |-> NineAM, duration |-> 1,
       status |-> "pending", start_time |-> NoTime,
       recurrence |-> NoRecurrence],
      [id |-> 2, child_id |-> 2, title |-> "n1", time |-> NineAM, duration |-> 1,
       status |-> "pending", start_time |-> NoTime,
       recurrence |-> NoRecurrence],
      [id |-> 3, child_id |-> 2, title |-> "n2", time |-> NineAM, duration |-> 1,
       status |-> "pending", start_time |-> NoTime,
       recurrence |-> NoRecurrence]>>
InitialRewards ==
    <<[id |-> 1, child_id |-> 1, title |-> "n1", cost |-> 2],
      [id |-> 2, child_id |-> 1, title |-> "n2", cost |-> 1]>>

\* a table that takes any row
KeyUnchecked(table, rows) == TRUE

\* id TEXT PRIMARY KEY: an insert of rows is accepted only if no id repeats
PrimaryKeyOk(table, rows) ==
    /\ \A i \in 1..Len(rows) : ~HasId(table, rows[i].id)
    /\ \A i, j \in 1..Len(rows) : rows[i].id = rows[j].id => i = j

\* child_id REFERENCES public.children(id)
ForeignKeyOk(rows) == \A i \in 1..Len(rows) : HasId(remoteChildren, rows[i].child_id)

\* a row of public.tasks as the app reads it (startTime: t.start_time)
TaskOfRow(t) ==
    [id |-> t.id, title |-> t.title, time |-> t.time, duration |-> t.duration,
     status |-> t.status, startTime |-> t.start_time, recurrence |-> t.recurrence]
RewardOfRow(r) == [id |-> r.id, title |-> r.title, cost |-> r.cost]

\* a family read without the embedded tasks
ChildWithoutTasks(c, taskRows, rewardRows) ==
    [id |-> c.id, name |-> c.name, stars |-> c.stars, active |-> c.active,
     tasks |-> <<>>,
     rewards |-> MapSeq(FilterSeq(rewardRows, LAMBDA r : r.child_id = c.id), RewardOfRow),
     redemptionHistory |-> <<>>]

\* select('*, tasks(*), rewards(*), redemption_history(*)') mapped to Child:
\* the rows carry no redemptionHistory property, so the app reads it as empty
ChildOf(c, taskRows, rewardRows) ==
    [id |-> c.id, name |-> c.name, stars |-> c.stars, active |-> c.active,
     tasks |-> MapSeq(FilterSeq(taskRows, LAMBDA t : t.child_id = c.id), TaskOfRow),
     rewards |-> MapSeq(FilterSeq(rewardRows, LAMBDA r : r.child_id = c.id), RewardOfRow),
     redemptionHistory |-> <<>>]

ChildOfRow(c) == ChildOf(c, remoteTasks, remoteRewards)

DbFetchFamilyData == MapSeq(remoteChildren, ChildOfRow)

-----------------------------------------------------------------------------
(* Initial state: every device has just mounted App, nobody is signed in *)

NoTask ==
    [id |-> 0, title |-> "", time |-> NineAM, duration |-> 1, status |-> "pending",
     startTime |-> NoTime, recurrence |-> NoRecurrence]
NoChild == [id |-> 0, name |-> "", stars |-> 0, active |-> FALSE, tasks |-> <<>>, rewards |-> <<>>, redemptionHistory |-> <<>>]
NoTaskForm ==
    [open |-> FALSE, childId |-> 0, editingTaskId |-> 0, newTask |-> NoTask,
     recurrenceFreq |-> "none", recurrenceDays |-> {}, recurrenceDayOfMonth |-> 1]
NoChildForm == [open |-> FALSE, editing |-> FALSE, editingChild |-> NoChild]
IdleRun == [pc |-> "idle", dev |-> "", queue |-> <<>>]
\* no TaskTimer is rendered: no card of an active task
NoTimer == [mounted |-> FALSE, running |-> FALSE, task |-> NoTask, endTime |-> 0,
            timeLeft |-> <<>>, left |-> 0]

\* localStorage of a fresh installation: no item under STORAGE_KEY, none under
\* MIGRATION_FLAG
\* TimeFormat, the two views that render times, and nothing rendered yet
Formats == {"12h", "24h"}
Views == {"dashboard", "portal"}
NoShown == [view |-> "dashboard", timeStr |-> <<>>, format |-> "12h", minutes |-> 0, text |-> <<>>]
NoStorage == [stored |-> FALSE, user |-> NoUser, children |-> <<>>, flag |-> FALSE]
\* migrateLocalStorageToSupabase is not running
NoMigration == [pc |-> "idle", queue |-> <<>>]

Init ==
    /\ now = StartOfTime
    /\ currentUser = [d \in Devices |-> NoUser]
    /\ children = [d \in Devices |-> <<>>]
    /\ remoteChildren = InitialChildren
    /\ remoteTasks = InitialTasks
    /\ remoteRewards = InitialRewards
    /\ net = {}
    /\ fetching = [d \in Devices |-> {}]
    /\ taskForm = [d \in Devices |-> NoTaskForm]
    /\ childForm = [d \in Devices |-> NoChildForm]
    /\ uploads = [u \in Runs |-> IdleRun]
    /\ timer = NoTimer
    /\ shown = NoShown
    /\ notified = [d \in Devices |-> {}]
    /\ storage = [d \in Devices |-> NoStorage]
    /\ migration = [d \in Devices |-> NoMigration]
    /\ out = "none"

\* Both devices are signed in and hold the family as they fetched it; since
\* then the row of the first child has been deleted from the store, and its
\* tasks and rewards with it (ON DELETE CASCADE).
InitialFamily == MapSeq(InitialChildren, LAMBDA c : ChildOf(c, InitialTasks, InitialRewards))
LostChild == InitialChildren[1].id

InitAfterDelete ==
    /\ now = StartOfTime
    /\ currentUser = [d \in Devices |-> FamilyUser(d)]
    /\ children = [d \in Devices |-> InitialFamily]
    /\ remoteChildren = FilterSeq(InitialChildren, LAMBDA c : c.id # LostChild)
    /\ remoteTasks = FilterSeq(InitialTasks, LAMBDA t : t.child_id # LostChild)
    /\ remoteRewards = FilterSeq(InitialRewards, LAMBDA r : r.child_id # LostChild)
    /\ net = {}
    /\ fetching = [d \in Devices |-> {}]
    /\ taskForm = [d \in Devices |-> NoTaskForm]
    /\ childForm = [d \in Devices |-> NoChildForm]
    /\ uploads = [u \in Runs |-> IdleRun]
    /\ timer = NoTimer
    /\ shown = NoShown
    /\ notified = [d \in Devices |-> {}]
    /\ storage = [d \in Devices |->
            [stored |-> TRUE, user |-> FamilyUser(d), children |-> <<>>, flag |-> TRUE]]
    /\ migration = [d \in Devices |-> NoMigration]
    /\ out = "none"

\* Both devices are signed in and hold the family of the store.
InitSynced ==
    /\ now = StartOfTime
    /\ currentUser = [d \in Devices |-> FamilyUser(d)]
    /\ children = [d \in Devices |-> InitialFamily]
    /\ remoteChildren = InitialChildren
    /\ remoteTasks = InitialTasks
    /\ remoteRewards = InitialRewards
    /\ net = {}
    /\ fetching = [d \in Devices |-> {}]
    /\ taskForm = [d \in Devices |-> NoTaskForm]
    /\ childForm = [d \in Devices |-> NoChildForm]
    /\ uploads = [u \in Runs |-> IdleRun]
    /\ timer = NoTimer
    /\ shown = NoShown
    /\ notified = [d \in Devices |-> {}]
    /\ storage = [d \in Devices |->
            [stored |-> TRUE, user |-> FamilyUser(d), children |-> <<>>, flag |-> TRUE]]
    /\ migration = [d \in Devices |-> NoMigration]
    /\ out = "none"

\* what the step lets an observer see: the value redeemReward returned, or the
\* message a handler wrote with console.error
Quiet == out' = "none"
Returned(value) == out' = IF value THEN "true" ELSE "false"
Logged(what, failed) == out' = IF failed THEN "error: " \o what ELSE "none"

HasFamily(d) == currentUser[d].familyId # ""
\* the routes are rendered only for a signed-in user with a family, and a
\* modal keeps the user on its view
CanUse(d) == HasFamily(d) /\ ~taskForm[d].open /\ ~childForm[d].open

-----------------------------------------------------------------------------
(* Clock *)

Tick ==
    /\ now < StartOfTime + MaxTicks * ClockStep
    /\ now' = now + ClockStep
    /\ Quiet
    /\ UNCHANGED <<shown, notified, storage, migration, currentUser, children, remoteChildren, remoteTasks, remoteRewards,
                   net, fetching, taskForm, childForm, uploads, timer>>

-----------------------------------------------------------------------------
(* Session and full re-fetch *)

\* DatabaseService.saveLocalData({ currentUser }): the stored item, or the
\* default of loadLocalData, with currentUser replaced
SavedUser(item, user) == [item EXCEPT !.stored = TRUE, !.user = user]

\* migrateLocalStorageToSupabase up to its first await: with no children in
\* the stored item it sets MIGRATION_FLAG and returns at once
MigrationStart(item) ==
    IF item.children = <<>> THEN NoMigration
    ELSE [pc |-> "check", queue |-> item.children]
FlagAtStart(item) == item.flag \/ item.children = <<>>

\* onAuthStateChange SIGNED_IN or INITIAL_SESSION: syncProfile found the
\* profile and its family; the effects on currentUser save it and call
\* triggerMigration
SignIn(d) ==
    /\ currentUser[d] = NoUser
    /\ currentUser' = [currentUser EXCEPT ![d] = FamilyUser(d)]
    /\ storage' = [storage EXCEPT ![d] =
            [SavedUser(@, FamilyUser(d)) EXCEPT !.flag = FlagAtStart(storage[d])]]
    /\ migration' = [migration EXCEPT ![d] = MigrationStart(storage[d])]
    /\ Quiet
    /\ UNCHANGED <<shown, notified, now, children, remoteChildren, remoteTasks, remoteRewards,
                   net, fetching, taskForm, childForm, uploads, timer>>

\* what the two awaited calls of syncProfile can come to: the profile is
\* found; the select or the insert loses the race against the 12 s timer;
\* the select or the insert answers with an error; the missing profile is
\* created
ProfileResults ==
    {"found", "fetch timeout", "fetch error", "created", "creation timeout", "creation error"}

\* a syncProfile that answers a timeout with the fallback profile
FallbackOnTimeout(d, result) ==
    [thrown |-> FALSE, family_id |-> IF result = "found" THEN "fam" ELSE ""]

\* syncProfile(session): the profile returned (here its family_id), or thrown.
\* The catch rethrows the two timeouts and returns a profile with
\* family_id: undefined for every other error; a profile just created has
\* no family yet
syncProfile(d, result) ==
    CASE result = "found" -> [thrown |-> FALSE, family_id |-> "fam"]
      [] result \in {"fetch timeout", "creation timeout"} -> [thrown |-> TRUE, family_id |-> ""]
      [] OTHER -> [thrown |-> FALSE, family_id |-> ""]

\* the listener of onAuthStateChange for SIGNED_IN or INITIAL_SESSION with a
\* session, with the effects on currentUser: the user is saved, and
\* triggerMigration runs when the id or the family changed and there is a family
onAuthStateChange(d, result) ==
    /\ LET profile == syncProfile(d, result)
           newUser == [id |-> d, familyId |-> profile.family_id]
           migrates == newUser.familyId # "" /\ newUser # currentUser[d]
       IN  IF profile.thrown
           THEN /\ Logged("syncProfile", TRUE)
                /\ UNCHANGED <<currentUser, storage, migration>>
           ELSE /\ currentUser' = [currentUser EXCEPT ![d] = newUser]
                /\ storage' = [storage EXCEPT ![d] =
                        [stored |-> TRUE, user |-> newUser, children |-> storage[d].children,
                         flag |-> IF migrates THEN FlagAtStart(storage[d]) ELSE storage[d].flag]]
                /\ migration' = [migration EXCEPT ![d] =
                        IF migrates THEN MigrationStart(storage[d]) ELSE @]
                /\ Quiet
    /\ UNCHANGED <<shown, notified, now, children, remoteChildren, remoteTasks, remoteRewards,
                   net, fetching, taskForm, childForm, uploads, timer>>

\* handleLogout, finally block: clearSession removes the stored snapshot (the
\* migration flag is another item), the state is cleared, and the views of
\* the signed-in user unmount; the cleanup of the realtime effect removes the
\* channel. What was awaited goes on.
Logout(d) ==
    /\ currentUser[d] # NoUser
    /\ storage' = [storage EXCEPT ![d] = [NoStorage EXCEPT !.flag = storage[d].flag]]
    /\ currentUser' = [currentUser EXCEPT ![d] = NoUser]
    /\ children' = [children EXCEPT ![d] = <<>>]
    /\ taskForm' = [taskForm EXCEPT ![d] = NoTaskForm]
    /\ childForm' = [childForm EXCEPT ![d] = NoChildForm]
    /\ timer' = IF d = "A" THEN NoTimer ELSE timer
    /\ Quiet
    /\ UNCHANGED <<shown, notified, migration, now, remoteChildren, remoteTasks, remoteRewards,
                   net, fetching, uploads>>

\* fetchFamilyData up to the answer of DatabaseService.fetchFamilyData: called
\* on sign-in, on every realtime notification, after an upload
FetchQuery(d) ==
    /\ currentUser[d] # NoUser
    /\ Cardinality(fetching[d]) < MaxFetch
    /\ fetching' = [fetching EXCEPT ![d] = @ \cup {DbFetchFamilyData}]
    /\ Quiet
    /\ UNCHANGED <<shown, notified, storage, migration, now, currentUser, children, remoteChildren, remoteTasks, remoteRewards,
                   net, taskForm, childForm, uploads, timer>>

\* setChildren(dbChildren)
FetchApply(d) ==
    \E snap \in fetching[d] :
        /\ fetching' = [fetching EXCEPT ![d] = @ \ {snap}]
        /\ children' = [children EXCEPT ![d] = snap]
        /\ Quiet
        /\ UNCHANGED <<shown, notified, storage, migration, now, currentUser, remoteChildren, remoteTasks, remoteRewards,
                       net, taskForm, childForm, uploads, timer>>

-----------------------------------------------------------------------------
(* Pushes: supabase.from(...).op(...).then(res => log res.error) *)

\* requests in flight; two equal requests (same operation, row and values,
\* issued in the same millisecond) are kept as one: executing an update or a
\* delete twice leaves what executing it once leaves
Issue(reqs) == IF reqs = {} THEN net' = net ELSE net' = net \cup reqs
Room == Cardinality(net) < MaxNet

UpdateById(table, id, F(_)) == MapSeq(table, LAMBDA r : IF r.id = id THEN F(r) ELSE r)
DeleteById(table, id) == FilterSeq(table, LAMBDA r : r.id # id)

\* an insert checked against the foreign key only
AcceptedIfChildStored(table, rows, withChild) == withChild => ForeignKeyOk(rows)

\* insert(rows): one statement, rejected as a whole (res.error) by a primary
\* key or foreign key violation
InsertAccepted(table, rows, withChild) ==
    PrimaryKeyOk(table, rows) /\ (withChild => ForeignKeyOk(rows))
InsertRows(table, rows, withChild) ==
    IF InsertAccepted(table, rows, withChild) THEN table \o rows ELSE table

\* ON DELETE CASCADE of tasks.child_id and rewards.child_id
DeleteChildRows(id) ==
    /\ remoteChildren' = DeleteById(remoteChildren, id)
    /\ remoteTasks' = FilterSeq(remoteTasks, LAMBDA t : t.child_id # id)
    /\ remoteRewards' = FilterSeq(remoteRewards, LAMBDA r : r.child_id # id)

\* the store executes one request; the .then callback logs res.error
Execute(req) ==
    CASE req.op = "children.updateStars" ->
            /\ remoteChildren' = UpdateById(remoteChildren, req.id, LAMBDA r : [r EXCEPT !.stars = req.stars])
            /\ UNCHANGED <<remoteTasks, remoteRewards>>
            /\ Quiet
      [] req.op = "children.delete" ->
            /\ DeleteChildRows(req.id)
            /\ Quiet
      [] req.op = "tasks.updateStatus" ->
            /\ remoteTasks' = UpdateById(remoteTasks, req.id,
                    LAMBDA r : [r EXCEPT !.status = req.status, !.start_time = req.start_time])
            /\ UNCHANGED <<remoteChildren, remoteRewards>>
            /\ Quiet
      [] req.op = "tasks.insert" ->
            /\ remoteTasks' = InsertRows(remoteTasks, req.rows, TRUE)
            /\ UNCHANGED <<remoteChildren, remoteRewards>>
            /\ Logged(req.op, ~(InsertAccepted(remoteTasks, req.rows, TRUE)))
      [] req.op = "tasks.update" ->
            /\ remoteTasks' = UpdateById(remoteTasks, req.id,
                    LAMBDA r : [r EXCEPT !.title = req.row.title, !.time = req.row.time,
                                         !.duration = req.row.duration, !.status = req.row.status,
                                         !.start_time = req.row.startTime,
                                         !.recurrence = req.row.recurrence])
            /\ UNCHANGED <<remoteChildren, remoteRewards>>
            /\ Quiet
      [] req.op = "tasks.delete" ->
            /\ remoteTasks' = DeleteById(remoteTasks, req.id)
            /\ UNCHANGED <<remoteChildren, remoteRewards>>
            /\ Quiet
      [] req.op = "rewards.insert" ->
            /\ remoteRewards' = InsertRows(remoteRewards, req.rows, TRUE)
            /\ UNCHANGED <<remoteChildren, remoteTasks>>
            /\ Logged(req.op, ~(InsertAccepted(remoteRewards, req.rows, TRUE)))
      [] req.op = "rewards.update" ->
            /\ remoteRewards' = UpdateById(remoteRewards, req.id,
                    LAMBDA r : [r EXCEPT !.title = req.row.title, !.cost = req.row.cost])
            /\ UNCHANGED <<remoteChildren, remoteTasks>>
            /\ Quiet
      [] req.op = "rewards.delete" ->
            /\ remoteRewards' = DeleteById(remoteRewards, req.id)
            /\ UNCHANGED <<remoteChildren, remoteTasks>>
            /\ Quiet

Deliver(req) ==
    /\ req \in net
    /\ net' = net \ {req}
    /\ Execute(req)
    /\ UNCHANGED <<shown, notified, storage, migration, now, currentUser, children, fetching, taskForm, childForm, uploads, timer>>

\* a callback that puts the family of the store back in place of the list
RollBack(req) ==
    /\ children' = [children EXCEPT ![req.dev] = DbFetchFamilyData]
    /\ UNCHANGED <<taskForm, childForm>>

\* .then(res => { if (res.error) console.error(...) }): the callback of a
\* failed push logs and sets no state
OnError(req) == UNCHANGED <<children, taskForm, childForm>>

\* the request does not reach the store: its answer carries res.error
Fail(req) ==
    /\ req \in net
    /\ net' = net \ {req}
    /\ out' = "error: " \o req.op
    /\ OnError(req)
    /\ UNCHANGED <<shown, notified, storage, migration, now, currentUser, remoteChildren, remoteTasks,
                   remoteRewards, fetching, uploads, timer>>

\* postgres_changes: the statement wrote a row of the table
Announced(req) ==
    CASE req.op \in {"tasks.insert"} -> InsertAccepted(remoteTasks, req.rows, TRUE)
      [] req.op \in {"rewards.insert"} -> InsertAccepted(remoteRewards, req.rows, TRUE)
      [] req.op \in {"children.updateStars", "children.delete"} -> HasId(remoteChildren, req.id)
      [] req.op \in {"tasks.updateStatus", "tasks.update", "tasks.delete"} -> HasId(remoteTasks, req.id)
      [] req.op \in {"rewards.update", "rewards.delete"} -> HasId(remoteRewards, req.id)

\* the store executes a request and announces the change on the family
\* channel: every subscribed device calls fetchFamilyData(), and the family
\* query of each is answered before the store changes again
DeliverNotified(req) ==
    /\ req \in net
    /\ net' = net \ {req}
    /\ Execute(req)
    /\ fetching' = [d \in Devices |->
            IF HasFamily(d) /\ Announced(req)
            THEN fetching[d] \cup {DbFetchFamilyData'} ELSE fetching[d]]
    /\ UNCHANGED <<shown, notified, storage, migration, now, currentUser, children, taskForm, childForm, uploads, timer>>

\* the request reaches the store, its answer is lost, and the call is retried
DeliverRetried(req) ==
    /\ req \in net
    /\ req.op = "tasks.insert"
    /\ ~req.retried
    /\ net' = (net \ {req}) \cup {[req EXCEPT !.retried = TRUE]}
    /\ Execute(req)
    /\ UNCHANGED <<shown, notified, storage, migration, now, currentUser, children, fetching, taskForm, childForm, uploads, timer>>

-----------------------------------------------------------------------------
(* Rewards catalog *)

\* children.find(c => c.active) || children[0]
ActiveChild(cs) ==
    IF \E i \in 1..Len(cs) : cs[i].active
    THEN cs[CHOOSE i \in 1..Len(cs) : cs[i].active /\ \A j \in 1..(i-1) : ~cs[j].active]
    ELSE cs[1]

RedemptionRecord(reward, note) ==
    [id |-> now, rewardId |-> reward.id, rewardTitle |-> reward.title,
     cost |-> reward.cost, timestamp |-> now, note |-> note]

\* a redemption that records the reward and forgets to charge for it
RedeemUncharged(child, reward, note) ==
    [child EXCEPT !.redemptionHistory = <<RedemptionRecord(reward, note)>> \o child.redemptionHistory]

RedeemChild(child, reward, note) ==
    [child EXCEPT !.stars = child.stars - reward.cost,
                  !.redemptionHistory = <<RedemptionRecord(reward, note)>> \o child.redemptionHistory]

\* a guard that only looks for the child
ChildFound(cs, childId, reward) == HasId(cs, childId)

\* a guard that lets any positive balance pay
HasSomeStars(cs, childId, reward) == HasId(cs, childId) /\ Find(cs, childId).stars > 0

\* the guard of redeemReward: the child exists and can pay
CanRedeem(cs, childId, reward) ==
    HasId(cs, childId) /\ ~(Find(cs, childId).stars < reward.cost)

redeemReward(d, childId, reward, note) ==
    IF ~CanRedeem(children[d], childId, reward)
    THEN /\ Returned(FALSE)
         /\ UNCHANGED <<children, net>>
    ELSE /\ children' = [children EXCEPT ![d] =
                MapSeq(@, LAMBDA c : IF c.id = childId THEN RedeemChild(c, reward, note) ELSE c)]
         /\ Issue(IF HasFamily(d)
                  THEN {[op |-> "children.updateStars", dev |-> d, id |-> childId,
                         stars |-> Find(children[d], childId).stars - reward.cost]}
                  ELSE {})
         /\ Returned(TRUE)

handleRedeem(d, reward, note) ==
    /\ CanUse(d)
    /\ children[d] # <<>>
    /\ Room
    /\ LET activeChild == ActiveChild(children[d]) IN
        /\ reward \in Range(activeChild.rewards)
        /\ activeChild.stars - reward.cost <= MaxStars
        /\ Len(activeChild.redemptionHistory) < MaxHistory
        /\ redeemReward(d, activeChild.id, reward, note)
    /\ UNCHANGED <<shown, notified, storage, migration, now, currentUser, remoteChildren, remoteTasks, remoteRewards,
                   fetching, taskForm, childForm, uploads, timer>>

\* onRedeemReward called without the button's disabled check: for the active
\* child or for an id no child has, with any reward of the catalog
RedeemCall(d, childId, reward, note) ==
    /\ CanUse(d)
    /\ Room
    /\ children[d] # <<>>
    /\ childId \in {ActiveChild(children[d]).id, 0}
    /\ reward \in Range(ActiveChild(children[d]).rewards)
    /\ HasId(children[d], childId) =>
          /\ Find(children[d], childId).stars - reward.cost <= MaxStars
          /\ Len(Find(children[d], childId).redemptionHistory) < MaxHistory
    /\ redeemReward(d, childId, reward, note)
    /\ UNCHANGED <<shown, notified, storage, migration, now, currentUser, remoteChildren, remoteTasks, remoteRewards,
                   fetching, taskForm, childForm, uploads, timer>>

switchActiveChild(d, id) ==
    /\ CanUse(d)
    /\ id \in Ids(children[d])
    /\ children' = [children EXCEPT ![d] = MapSeq(@, LAMBDA c : [c EXCEPT !.active = (c.id = id)])]
    /\ Quiet
    /\ UNCHANGED <<shown, notified, storage, migration, now, currentUser, remoteChildren, remoteTasks, remoteRewards,
                   net, fetching, taskForm, childForm, uploads, timer>>

-----------------------------------------------------------------------------
(* Task lifecycle: child portal *)

\* a status change that stamps the task whatever the new status
StampAlways(task, status) == now

StartTimeFor(task, status) == IF status = "active" THEN now ELSE task.startTime

UpdatedTask(task, status) ==
    [task EXCEPT !.status = status, !.startTime = StartTimeFor(task, status)]

\* the update sent for a task: status and start_time, by task id
StatusPush(d, task, status) ==
    [op |-> "tasks.updateStatus", dev |-> d, id |-> task.id,
     status |-> UpdatedTask(task, status).status,
     start_time |-> UpdatedTask(task, status).startTime]

updateTaskStatus(d, childId, taskId, status) ==
    /\ children' = [children EXCEPT ![d] =
            MapSeq(@, LAMBDA c :
                IF c.id = childId
                THEN [c EXCEPT !.tasks =
                        MapSeq(@, LAMBDA t : IF t.id = taskId THEN UpdatedTask(t, status) ELSE t)]
                ELSE c)]
    /\ Issue(IF HasFamily(d)
             THEN {StatusPush(d, t, status) :
                     t \in UNION {IF c.id = childId THEN {x \in Range(c.tasks) : x.id = taskId} ELSE {}
                                    : c \in Range(children[d])}}
             ELSE {})
    /\ Quiet

\* a Start button on every card that is not the active one
StartUnlessActive(task) == task.status # "active"

\* the Start button is rendered for a task that is not active, not done and pending
StartOffered(task) == task.status # "active" /\ task.status # "done" /\ task.status = "pending"
\* the Complete button is rendered in the card of an active task
CompleteOffered(task) == task.status = "active"

handleStart(d, taskId) ==
    /\ CanUse(d)
    /\ children[d] # <<>>
    /\ Room
    /\ \E task \in Range(ActiveChild(children[d]).tasks) :
          /\ task.id = taskId
          /\ StartOffered(task)
    /\ updateTaskStatus(d, ActiveChild(children[d]).id, taskId, "active")
    /\ UNCHANGED <<shown, notified, storage, migration, now, currentUser, remoteChildren, remoteTasks, remoteRewards,
                   fetching, taskForm, childForm, uploads, timer>>

handleComplete(d, taskId) ==
    /\ CanUse(d)
    /\ children[d] # <<>>
    /\ Room
    /\ \E task \in Range(ActiveChild(children[d]).tasks) :
          /\ task.id = taskId
          /\ CompleteOffered(task)
    /\ updateTaskStatus(d, ActiveChild(children[d]).id, taskId, "done")
    /\ UNCHANGED <<shown, notified, storage, migration, now, currentUser, remoteChildren, remoteTasks, remoteRewards,
                   fetching, taskForm, childForm, uploads, timer>>

-----------------------------------------------------------------------------
(* TaskTimer: the countdown in the card of an active task.  timeLeft is the
   text mm:ss by its two numbers (<<>> for the text shown before the first
   poll); progress is left / durationMs * 100, kept by its numerator left. *)

\* the time that passes between two polls of the interval
PollGaps == {29500, 30000, 30500}

Elapse(ms) ==
    /\ now + ms <= StartOfTime + MaxElapsed
    /\ now' = now + ms
    /\ Quiet
    /\ UNCHANGED <<shown, notified, storage, migration, currentUser, children, remoteChildren, remoteTasks, remoteRewards,
                   net, fetching, taskForm, childForm, uploads, timer>>

\* an end time that takes the duration for seconds
EndTimeInSeconds(task) == task.startTime + task.duration * 1000

\* parseInt(task.duration) * 60 * 1000 after task.startTime
EndTime(task) == task.startTime + task.duration * 60 * 1000

\* the effect's guard: an active task with a startTime (the duration text is
\* never empty here)
TimerStarts(task) == task.status = "active" /\ task.startTime # NoTime

\* the tasks the portal of device A shows
PortalTasks == IF children["A"] = <<>> THEN {} ELSE Range(ActiveChild(children["A"]).tasks)

\* the card of an active task is rendered: TaskTimer mounts and its effect runs
TimerMount(task) ==
    /\ ~timer.mounted
    /\ task \in PortalTasks
    /\ task.status = "active"
    /\ timer' = [mounted |-> TRUE, running |-> TimerStarts(task), task |-> task,
                 endTime |-> EndTime(task), timeLeft |-> <<>>,
                 left |-> task.duration * 60 * 1000]
    /\ Quiet
    /\ UNCHANGED <<shown, notified, storage, migration, now, currentUser, children, remoteChildren, remoteTasks, remoteRewards,
                   net, fetching, taskForm, childForm, uploads>>

\* the card is rendered with a new task object (every setChildren after a
\* re-fetch makes one): the effect's cleanup clears the interval and the
\* effect runs again; timeLeft and progress are kept
TimerRerun(task) ==
    /\ timer.mounted
    /\ task \in PortalTasks
    /\ task.id = timer.task.id
    /\ task.status = "active"
    /\ timer' = [timer EXCEPT !.running = TimerStarts(task), !.task = task,
                              !.endTime = EndTime(task)]
    /\ Quiet
    /\ UNCHANGED <<shown, notified, storage, migration, now, currentUser, children, remoteChildren, remoteTasks, remoteRewards,
                   net, fetching, taskForm, childForm, uploads>>

\* the task is no longer shown as active: the card and its timer are gone
TimerUnmount ==
    /\ timer.mounted
    /\ ~\E task \in PortalTasks : task.id = timer.task.id /\ task.status = "active"
    /\ timer' = NoTimer
    /\ Quiet
    /\ UNCHANGED <<shown, notified, storage, migration, now, currentUser, children, remoteChildren, remoteTasks, remoteRewards,
                   net, fetching, taskForm, childForm, uploads>>

\* one call of the interval's callback
TimerTick ==
    /\ timer.running
    /\ LET diff == timer.endTime - now IN
         timer' = IF diff <= 0
                  THEN [timer EXCEPT !.timeLeft = <<0, 0>>, !.left = 0, !.running = FALSE]
                  ELSE [timer EXCEPT !.timeLeft = <<diff \div 60000, (diff % 60000) \div 1000>>,
                                     !.left = diff]
    /\ Quiet
    /\ UNCHANGED <<shown, notified, storage, migration, now, currentUser, children, remoteChildren, remoteTasks, remoteRewards,
                   net, fetching, taskForm, childForm, uploads>>

-----------------------------------------------------------------------------
(* Parent dashboard: tasks *)

\* time12hRegex = /^(0?[1-9]|1[0-2]):[0-5][0-9]\s?(AM|PM)$/ and
\* time24hRegex = /^([01]?[0-9]|2[0-3]):[0-5][0-9]$/ tested on the trimmed,
\* upper-cased text
isValidTime(timeStr) ==
    LET clean == ToUpperCase(Trim(timeStr))
        HourOf12(h) ==
            \/ Len(h) = 1 /\ IsDigit(h[1]) /\ h[1] # "0"
            \/ Len(h) = 2 /\ h[1] = "0" /\ IsDigit(h[2]) /\ h[2] # "0"
            \/ Len(h) = 2 /\ h[1] = "1" /\ h[2] \in {"0", "1", "2"}
        HourOf24(h) ==
            \/ Len(h) = 1 /\ IsDigit(h[1])
            \/ Len(h) = 2 /\ h[1] \in {"0", "1"} /\ IsDigit(h[2])
            \/ Len(h) = 2 /\ h[1] = "2" /\ h[2] \in {"0", "1", "2", "3"}
        MinuteOfHour(m) ==
            Len(m) = 2 /\ m[1] \in {"0", "1", "2", "3", "4", "5"} /\ IsDigit(m[2])
        time12hRegex ==
            \E i \in 1..Len(clean) :
                /\ clean[i] = ":"
                /\ HourOf12(SubSeq(clean, 1, i - 1))
                /\ Len(clean) >= i + 2
                /\ MinuteOfHour(SubSeq(clean, i + 1, i + 2))
                /\ \E period \in {AM, PM}, gap \in {<<>>} \cup {<<w>> : w \in Whitespace} :
                      SubSeq(clean, i + 3, Len(clean)) = gap \o period
        time24hRegex ==
            \E i \in 1..Len(clean) :
                /\ clean[i] = ":"
                /\ HourOf24(SubSeq(clean, 1, i - 1))
                /\ MinuteOfHour(SubSeq(clean, i + 1, Len(clean)))
    IN  time12hRegex \/ time24hRegex

\* parseTimeToMinutes of the dashboard (fallback = TRUE: const period =
\* parts[1] || (hours >= 12 ? 'PM' : 'AM')) and of the child portal
\* (fallback = FALSE: const period = parts[1])
ParseTime(timeStr, fallback) ==
    IF timeStr = <<>> THEN 0
    ELSE LET clean == ToUpperCase(Trim(timeStr)) IN
         IF Includes(clean, AM) \/ Includes(clean, PM)
         THEN LET parts == SplitSpaces(clean)
                  timeParts == Split(parts[1], {":"})
                  hours == ToNumber(timeParts[1])
                  minutes == IF Len(timeParts) > 1 /\ timeParts[2] # <<>>
                             THEN ToNumber(timeParts[2]) ELSE 0
                  period == IF Len(parts) > 1 THEN parts[2]
                            ELSE IF ~fallback THEN <<>>
                            ELSE IF hours # NaN /\ hours >= 12 THEN PM ELSE AM
                  shifted == IF period = PM /\ hours # NaN /\ hours < 12 THEN hours + 12
                             ELSE IF period = AM /\ hours = 12 THEN 0
                             ELSE hours
              IN  IF shifted = NaN THEN NaN ELSE shifted * 60 + OrZero(minutes)
         ELSE LET parts == Split(clean, {":"})
                  hours == ToNumber(parts[1])
                  minutes == IF Len(parts) > 1 /\ parts[2] # <<>>
                             THEN ToNumber(parts[2]) ELSE 0
              IN  OrZero(hours) * 60 + OrZero(minutes)

parseTimeToMinutes(timeStr) == ParseTime(timeStr, TRUE)
portalParseTimeToMinutes(timeStr) == ParseTime(timeStr, FALSE)

\* n.toString().padStart(2, '0') for NaN and for 0 <= n < 100
pad(n) ==
    IF n = NaN THEN <<"N", "a", "N">> ELSE <<Digits[(n \div 10) + 1], Digits[(n % 10) + 1]>>

\* the text built from the hour h and the minute m: `${pad(h)}:${pad(m)}` or
\* `${pad(h12)}:${pad(m)} ${period}`, where NaN >= 12 is false and
\* NaN % 12 || 12 is 12
TimeText(h, m, format) ==
    IF format = "24h"
    THEN pad(h) \o <<":">> \o pad(m)
    ELSE LET h12 == IF h = NaN \/ h % 12 = 0 THEN 12 ELSE h % 12
         IN  pad(h12) \o <<":">> \o pad(m) \o <<" ">> \o (IF h # NaN /\ h >= 12 THEN PM ELSE AM)

\* minutesToInternalString of the dashboard: Math.floor(mins / 60) % 24
minutesToInternalString(mins, format) ==
    IF mins = NaN THEN TimeText(NaN, NaN, format)
    ELSE TimeText((mins \div 60) % 24, mins % 60, format)

\* the formatting inside displayTime of the child portal: Math.floor(mins / 60)
portalTimeString(mins, format) ==
    IF mins = NaN THEN TimeText(NaN, NaN, format)
    ELSE TimeText(mins \div 60, mins % 60, format)

\* displayTime(timeStr, format) of either view, rendering a task's time
displayTime(view, timeStr, format) ==
    /\ LET mins == IF view = "dashboard" THEN parseTimeToMinutes(timeStr)
                   ELSE portalParseTimeToMinutes(timeStr)
       IN  shown' = [view |-> view, timeStr |-> timeStr, format |-> format, minutes |-> mins,
                     text |-> IF view = "dashboard" THEN minutesToInternalString(mins, format)
                              ELSE portalTimeString(mins, format)]
    /\ Quiet
    /\ UNCHANGED <<notified, storage, migration, now, currentUser, children, remoteChildren,
                   remoteTasks, remoteRewards, net, fetching, taskForm, childForm, uploads, timer>>

\* addTableRow: the time of a new row of the import table is built from a
\* number of minutes, minutesToInternalString(mins, timeFormat)
NextRowTime(mins, format) ==
    [view |-> "dashboard", timeStr |-> <<>>, format |-> format, minutes |-> mins,
     text |-> minutesToInternalString(mins, format)]

\* a text the application has produced is read back: the generated row time
\* is stored as the task's time and rendered again
redisplay(view) ==
    /\ shown.text # <<>>
    /\ displayTime(view, shown.text, shown.format)

isValidDuration(n) == n > 0 /\ n < 1440

\* children.find(c => c.id === dashboardChildId) || children[0]
SelectedChild(cs, dashboardChildId) ==
    IF HasId(cs, dashboardChildId) THEN Find(cs, dashboardChildId) ELSE cs[1]

DefaultNewTask == NoTask

TaskRow(childId, task) ==
    [id |-> task.id, child_id |-> childId, title |-> task.title, time |-> task.time,
     duration |-> task.duration, status |-> task.status, start_time |-> task.startTime,
     recurrence |-> task.recurrence]

\* the + button of the schedule: the form opens on the default task
openAddTask(d, childId) ==
    /\ CanUse(d)
    /\ childId \in Ids(children[d])
    /\ taskForm' = [taskForm EXCEPT ![d] =
            [@ EXCEPT !.open = TRUE, !.childId = childId, !.editingTaskId = 0,
                      !.newTask = DefaultNewTask]]
    /\ Quiet
    /\ UNCHANGED <<shown, notified, storage, migration, now, currentUser, children, remoteChildren, remoteTasks, remoteRewards,
                   net, fetching, childForm, uploads, timer>>

\* an edit form that opens on a reset copy of the task
EditCopyReset(task) == [task EXCEPT !.status = "pending", !.startTime = NoTime]

\* setEditingTaskId(task.id); setNewTask({ ...task })
EditCopy(task) == task

handleEditTaskRequest(d, childId, taskId) ==
    /\ CanUse(d)
    /\ childId \in Ids(children[d])
    /\ \E task \in Range(Find(children[d], childId).tasks) :
          /\ task.id = taskId
          /\ taskForm' = [taskForm EXCEPT ![d] =
                [open |-> TRUE, childId |-> childId, editingTaskId |-> task.id,
                 newTask |-> EditCopy(task),
                 recurrenceFreq |-> task.recurrence.frequency,
                 recurrenceDays |-> task.recurrence.days,
                 recurrenceDayOfMonth |-> IF task.recurrence.dayOfMonth = 0 THEN 1
                                          ELSE task.recurrence.dayOfMonth]]
    /\ Quiet
    /\ UNCHANGED <<shown, notified, storage, migration, now, currentUser, children, remoteChildren, remoteTasks, remoteRewards,
                   net, fetching, childForm, uploads, timer>>

\* Cancel and the backdrop: setIsAddingTask(false); resetTaskState()
cancelTask(d) ==
    /\ taskForm[d].open
    /\ taskForm' = [taskForm EXCEPT ![d] = NoTaskForm]
    /\ Quiet
    /\ UNCHANGED <<shown, notified, storage, migration, now, currentUser, children, remoteChildren, remoteTasks, remoteRewards,
                   net, fetching, childForm, uploads, timer>>

onAddTask(d, childId, task) ==
    /\ children' = [children EXCEPT ![d] =
            MapSeq(@, LAMBDA c : IF c.id = childId THEN [c EXCEPT !.tasks = @ \o <<task>>] ELSE c)]
    /\ Issue(IF HasFamily(d)
             THEN {[op |-> "tasks.insert", dev |-> d, id |-> task.id,
                    rows |-> <<TaskRow(childId, task)>>, retried |-> FALSE]}
             ELSE {})
    /\ Quiet

onUpdateTask(d, childId, task) ==
    /\ children' = [children EXCEPT ![d] =
            MapSeq(@, LAMBDA c :
                IF c.id = childId
                THEN [c EXCEPT !.tasks = MapSeq(@, LAMBDA t : IF t.id = task.id THEN task ELSE t)]
                ELSE c)]
    /\ Issue(IF HasFamily(d)
             THEN {[op |-> "tasks.update", dev |-> d, id |-> task.id, row |-> task]}
             ELSE {})
    /\ Quiet

\* the buttons and the field of the modal's recurrence section
setRecurrenceFreq(d, freq) ==
    /\ taskForm[d].open
    /\ taskForm' = [taskForm EXCEPT ![d].recurrenceFreq = freq]
    /\ Quiet
    /\ UNCHANGED <<shown, notified, storage, migration, now, currentUser, children, remoteChildren,
                   remoteTasks, remoteRewards, net, fetching, childForm, uploads, timer>>

toggleRecurrenceDay(d, day) ==
    /\ taskForm[d].open
    /\ taskForm[d].recurrenceFreq = "weekly"
    /\ taskForm' = [taskForm EXCEPT ![d].recurrenceDays =
            IF day \in @ THEN @ \ {day} ELSE @ \cup {day}]
    /\ Quiet
    /\ UNCHANGED <<shown, notified, storage, migration, now, currentUser, children, remoteChildren,
                   remoteTasks, remoteRewards, net, fetching, childForm, uploads, timer>>

\* onChange={e => setRecurrenceDayOfMonth(parseInt(e.target.value))}
setRecurrenceDayOfMonth(d, day) ==
    /\ taskForm[d].open
    /\ taskForm[d].recurrenceFreq = "monthly"
    /\ taskForm' = [taskForm EXCEPT ![d].recurrenceDayOfMonth = day]
    /\ Quiet
    /\ UNCHANGED <<shown, notified, storage, migration, now, currentUser, children, remoteChildren,
                   remoteTasks, remoteRewards, net, fetching, childForm, uploads, timer>>

\* const recurrence = recurrenceFreq !== 'none' ? { frequency, days, dayOfMonth } : undefined
Recurrence(form) ==
    IF form.recurrenceFreq = "none" THEN NoRecurrence
    ELSE [frequency |-> form.recurrenceFreq,
          days |-> IF form.recurrenceFreq = "weekly" THEN form.recurrenceDays ELSE {},
          dayOfMonth |-> IF form.recurrenceFreq = "monthly" THEN form.recurrenceDayOfMonth ELSE 0]

\* const taskData = { ...newTask, recurrence } with the form's inputs
TaskData(form, title, time, duration) ==
    [form.newTask EXCEPT !.title = title, !.time = time, !.duration = duration,
                         !.recurrence = Recurrence(form)]

handleSaveTask(d, title, time, duration) ==
    /\ taskForm[d].open
    /\ Room
    /\ IF \/ children[d] = <<>>
          \/ title = ""
          \/ ~isValidTime(time)
          \/ ~isValidDuration(duration)
       THEN /\ Quiet
            /\ UNCHANGED <<children, net, taskForm>>
       ELSE LET child == SelectedChild(children[d], taskForm[d].childId)
                data == TaskData(taskForm[d], title, time, duration)
            IN  /\ IF taskForm[d].editingTaskId # 0
                   THEN onUpdateTask(d, child.id, [data EXCEPT !.id = taskForm[d].editingTaskId])
                   ELSE /\ ~HasId(child.tasks, now)
                        /\ Len(child.tasks) < MaxItems
                        /\ onAddTask(d, child.id, [data EXCEPT !.id = now])
                /\ taskForm' = [taskForm EXCEPT ![d] = NoTaskForm]
    /\ UNCHANGED <<shown, notified, storage, migration, now, currentUser, remoteChildren, remoteTasks, remoteRewards,
                   fetching, childForm, uploads, timer>>

onDeleteTask(d, childId, taskId) ==
    /\ CanUse(d)
    /\ Room
    /\ childId \in Ids(children[d])
    /\ taskId \in Ids(Find(children[d], childId).tasks)
    /\ children' = [children EXCEPT ![d] =
            MapSeq(@, LAMBDA c :
                IF c.id = childId
                THEN [c EXCEPT !.tasks = FilterSeq(@, LAMBDA t : t.id # taskId)]
                ELSE c)]
    /\ Issue(IF HasFamily(d) THEN {[op |-> "tasks.delete", dev |-> d, id |-> taskId]} ELSE {})
    /\ Quiet
    /\ UNCHANGED <<shown, notified, storage, migration, now, currentUser, remoteChildren, remoteTasks, remoteRewards,
                   fetching, taskForm, childForm, uploads, timer>>

\* onAddTasks of the dashboard route: the tasks are appended to the child and
\* pushed in one insert
onAddTasks(d, childId, tasks) ==
    /\ children' = [children EXCEPT ![d] =
            MapSeq(@, LAMBDA c : IF c.id = childId THEN [c EXCEPT !.tasks = @ \o tasks] ELSE c)]
    /\ Issue(IF HasFamily(d)
             THEN {[op |-> "tasks.insert", dev |-> d, id |-> tasks[1].id,
                    rows |-> MapSeq(tasks, LAMBDA t : TaskRow(childId, t)), retried |-> FALSE]}
             ELSE {})
    /\ Quiet

\* the rows of the import table the guardian has typed into
TableRow(time, title, duration) == [time |-> time, title |-> title, duration |-> duration]
TableRows ==
    LET rows == {TableRow(NineAM, "n1", 1), TableRow(BadMinute, "n1", 1),
                 TableRow(NineAM, "n1", 0), TableRow(NineAM, "", 1), TableRow(<<>>, "", 1)}
    IN  {<<r>> : r \in rows} \cup {<<r1, r2>> : r1 \in rows, r2 \in rows}

\* tableRows.filter(r => r.title.trim() || r.time.trim())
ValidRows(tableRows) == FilterSeq(tableRows, LAMBDA r : r.title # "" \/ Trim(r.time) # <<>>)

\* the rows of validRows for which forEach pushes a ValidationError
AnyRowErrors(validRows) ==
    {i \in 1..Len(validRows) : i = 1 /\ validRows[i].title = ""}
RowErrors(validRows) ==
    {i \in 1..Len(validRows) :
        \/ validRows[i].title = ""
        \/ ~isValidTime(validRows[i].time)
        \/ ~isValidDuration(validRows[i].duration)}

\* validRows.map((row, index) => ({ id: `table_${Date.now()}_${index}_...`, ... }))
TasksToAdd(validRows) ==
    [i \in 1..Len(validRows) |->
        [NoTask EXCEPT !.id = now + i - 1, !.time = validRows[i].time,
                       !.title = validRows[i].title, !.duration = validRows[i].duration]]

\* the save button of the import table, shown for the child of the dashboard
handleSaveTableImport(d, dashboardChildId, tableRows) ==
    /\ CanUse(d)
    /\ Room
    /\ IF \/ children[d] = <<>>
          \/ ValidRows(tableRows) = <<>>
          \/ RowErrors(ValidRows(tableRows)) # {}
       THEN /\ Quiet
            /\ UNCHANGED <<children, net>>
       ELSE LET child == SelectedChild(children[d], dashboardChildId)
                tasksToAdd == TasksToAdd(ValidRows(tableRows))
            IN  /\ \A t \in Range(tasksToAdd) : ~HasId(child.tasks, t.id)
                /\ Len(child.tasks) + Len(tasksToAdd) <= MaxItems
                /\ onAddTasks(d, child.id, tasksToAdd)
    /\ UNCHANGED <<shown, notified, storage, migration, now, currentUser, remoteChildren, remoteTasks, remoteRewards,
                   fetching, taskForm, childForm, uploads, timer>>

-----------------------------------------------------------------------------
(* Parent dashboard: rewards.  saveReward takes the reward id from the modal
   and every other field from the form's inputs. *)

RewardRow(childId, reward) ==
    [id |-> reward.id, child_id |-> childId, title |-> reward.title, cost |-> reward.cost]

\* saveReward with editingReward = null -> onAddReward
addReward(d, childId, title, cost) ==
    /\ CanUse(d)
    /\ Room
    /\ childId \in Ids(children[d])
    /\ title # ""
    /\ LET child == Find(children[d], childId)
           reward == [id |-> now, title |-> title, cost |-> cost]
       IN  /\ ~HasId(child.rewards, now)
           /\ Len(child.rewards) < MaxItems
           /\ children' = [children EXCEPT ![d] =
                 MapSeq(@, LAMBDA c : IF c.id = childId THEN [c EXCEPT !.rewards = @ \o <<reward>>] ELSE c)]
           /\ Issue(IF HasFamily(d)
                    THEN {[op |-> "rewards.insert", dev |-> d, id |-> reward.id,
                           rows |-> <<RewardRow(childId, reward)>>]}
                    ELSE {})
    /\ Quiet
    /\ UNCHANGED <<shown, notified, storage, migration, now, currentUser, remoteChildren, remoteTasks, remoteRewards,
                   fetching, taskForm, childForm, uploads, timer>>

\* saveReward with editingReward set -> onUpdateReward
updateReward(d, childId, rewardId, title, cost) ==
    /\ CanUse(d)
    /\ Room
    /\ childId \in Ids(children[d])
    /\ rewardId \in Ids(Find(children[d], childId).rewards)
    /\ title # ""
    /\ LET reward == [id |-> rewardId, title |-> title, cost |-> cost] IN
           /\ children' = [children EXCEPT ![d] =
                 MapSeq(@, LAMBDA c :
                    IF c.id = childId
                    THEN [c EXCEPT !.rewards = MapSeq(@, LAMBDA r : IF r.id = rewardId THEN reward ELSE r)]
                    ELSE c)]
           /\ Issue(IF HasFamily(d)
                    THEN {[op |-> "rewards.update", dev |-> d, id |-> rewardId, row |-> reward]}
                    ELSE {})
    /\ Quiet
    /\ UNCHANGED <<shown, notified, storage, migration, now, currentUser, remoteChildren, remoteTasks, remoteRewards,
                   fetching, taskForm, childForm, uploads, timer>>

onDeleteReward(d, childId, rewardId) ==
    /\ CanUse(d)
    /\ Room
    /\ childId \in Ids(children[d])
    /\ rewardId \in Ids(Find(children[d], childId).rewards)
    /\ children' = [children EXCEPT ![d] =
            MapSeq(@, LAMBDA c :
                IF c.id = childId
                THEN [c EXCEPT !.rewards = FilterSeq(@, LAMBDA r : r.id # rewardId)]
                ELSE c)]
    /\ Issue(IF HasFamily(d) THEN {[op |-> "rewards.delete", dev |-> d, id |-> rewardId]} ELSE {})
    /\ Quiet
    /\ UNCHANGED <<shown, notified, storage, migration, now, currentUser, remoteChildren, remoteTasks, remoteRewards,
                   fetching, taskForm, childForm, uploads, timer>>

-----------------------------------------------------------------------------
(* uploadFamilyData: one run per call, one store operation per step *)

GuardWindowMs == 5000

\* c.id.startsWith('c_') && Date.now() - parseInt(c.id.split('_')[1]) < 5000
BrandNew(c) == now - c.id < GuardWindowMs

UploadSkipped(d, list) ==
    \/ ~HasFamily(d)
    \/ list = <<>>
    \/ \A c \in Range(list) : BrandNew(c)

FreeRun == CHOOSE u \in Runs : uploads[u].pc = "idle"

uploadFamilyData(d, list) ==
    IF UploadSkipped(d, list)
    THEN UNCHANGED uploads
    ELSE /\ \E u \in Runs : uploads[u].pc = "idle"
         /\ uploads' = [uploads EXCEPT ![FreeRun] = [pc |-> "check", dev |-> d, queue |-> list]]

ChildRow(child) ==
    [id |-> child.id, name |-> child.name, stars |-> child.stars, active |-> child.active]

\* a loop that goes on to push the tasks of the child it has just written
PushTasksNext(run) == [run EXCEPT !.pc = "insertTasks"]

\* the loop moves to the next child, or leaves the loop to re-fetch
NextChild(run) ==
    [run EXCEPT !.queue = Tail(@), !.pc = IF Tail(run.queue) = <<>> THEN "refetch" ELSE "check"]

\* after the child row: its tasks, then its rewards, when it has any
AfterChild(run) ==
    IF Head(run.queue).tasks # <<>> THEN [run EXCEPT !.pc = "insertTasks"]
    ELSE IF Head(run.queue).rewards # <<>> THEN [run EXCEPT !.pc = "insertRewards"]
    ELSE NextChild(run)

AfterTasks(run) ==
    IF Head(run.queue).rewards # <<>> THEN [run EXCEPT !.pc = "insertRewards"]
    ELSE NextChild(run)

\* an existence check that never finds the row
NeverExisting(child) == FALSE

\* select('id').eq('id', child.id).single()
ExistingChild(child) == HasId(remoteChildren, child.id)

UploadCheck(u) ==
    /\ uploads[u].pc = "check"
    /\ uploads' = [uploads EXCEPT ![u].pc =
            IF ExistingChild(Head(uploads[u].queue)) THEN "update" ELSE "insertChild"]
    /\ Quiet
    /\ UNCHANGED <<shown, notified, storage, migration, now, currentUser, children, remoteChildren, remoteTasks, remoteRewards,
                   net, fetching, taskForm, childForm, timer>>

\* insert of the child row; childError -> continue
UploadInsertChild(u) ==
    /\ uploads[u].pc = "insertChild"
    /\ LET child == Head(uploads[u].queue)
           ok == InsertAccepted(remoteChildren, <<ChildRow(child)>>, FALSE)
       IN  /\ remoteChildren' = InsertRows(remoteChildren, <<ChildRow(child)>>, FALSE)
           /\ uploads' = [uploads EXCEPT ![u] = IF ok THEN AfterChild(@) ELSE NextChild(@)]
           /\ Logged("upload.insertChild", ~(ok))
    /\ UNCHANGED <<shown, notified, storage, migration, now, currentUser, children, remoteTasks, remoteRewards,
                   net, fetching, taskForm, childForm, timer>>

UploadInsertTasks(u) ==
    /\ uploads[u].pc = "insertTasks"
    /\ LET child == Head(uploads[u].queue)
           rows == MapSeq(child.tasks, LAMBDA t : TaskRow(child.id, t))
       IN  /\ remoteTasks' = InsertRows(remoteTasks, rows, TRUE)
           /\ uploads' = [uploads EXCEPT ![u] = AfterTasks(@)]
           /\ Logged("upload.insertTasks", ~(InsertAccepted(remoteTasks, rows, TRUE)))
    /\ UNCHANGED <<shown, notified, storage, migration, now, currentUser, children, remoteChildren, remoteRewards,
                   net, fetching, taskForm, childForm, timer>>

UploadInsertRewards(u) ==
    /\ uploads[u].pc = "insertRewards"
    /\ LET child == Head(uploads[u].queue)
           rows == MapSeq(child.rewards, LAMBDA r : RewardRow(child.id, r))
       IN  /\ remoteRewards' = InsertRows(remoteRewards, rows, TRUE)
           /\ uploads' = [uploads EXCEPT ![u] = NextChild(@)]
           /\ Logged("upload.insertRewards", ~(InsertAccepted(remoteRewards, rows, TRUE)))
    /\ UNCHANGED <<shown, notified, storage, migration, now, currentUser, children, remoteChildren, remoteTasks,
                   net, fetching, taskForm, childForm, timer>>

\* update({name, avatar, age, level, stars, active, love_languages}).eq('id', child.id)
UploadUpdate(u) ==
    /\ uploads[u].pc = "update"
    /\ LET child == Head(uploads[u].queue) IN
           /\ remoteChildren' = UpdateById(remoteChildren, child.id,
                    LAMBDA r : [r EXCEPT !.name = child.name, !.stars = child.stars,
                                         !.active = child.active])
           /\ Quiet
    /\ uploads' = [uploads EXCEPT ![u] = NextChild(@)]
    /\ UNCHANGED <<shown, notified, storage, migration, now, currentUser, children, remoteTasks, remoteRewards,
                   net, fetching, taskForm, childForm, timer>>

\* await fetchFamilyData() closing the run
UploadRefetch(u) ==
    /\ uploads[u].pc = "refetch"
    /\ LET d == uploads[u].dev IN
         /\ fetching' = [fetching EXCEPT ![d] =
                IF currentUser[d] # NoUser /\ Cardinality(@) < MaxFetch
                THEN @ \cup {DbFetchFamilyData} ELSE @]
         /\ Quiet
    /\ uploads' = [uploads EXCEPT ![u] = IdleRun]
    /\ UNCHANGED <<shown, notified, storage, migration, now, currentUser, children, remoteChildren, remoteTasks, remoteRewards,
                   net, taskForm, childForm, timer>>

-----------------------------------------------------------------------------
(* migrateLocalStorageToSupabase, called by triggerMigration *)

\* the children of a snapshot written by the local-only version of the
\* application, none of them in the store
LegacyChildren ==
    << [id |-> 3, name |-> "n1", stars |-> 1, active |-> TRUE,
        tasks |-> << [id |-> 4, title |-> "n1", time |-> NineAM, duration |-> 1,
                      status |-> "pending", startTime |-> NoTime,
                      recurrence |-> NoRecurrence] >>,
        rewards |-> << [id |-> 3, title |-> "n1", cost |-> 1] >>,
        redemptionHistory |-> <<>>],
       [id |-> 4, name |-> "n2", stars |-> 0, active |-> FALSE,
        tasks |-> << [id |-> 5, title |-> "n2", time |-> NineAM, duration |-> 1,
                      status |-> "done", startTime |-> NoTime,
                      recurrence |-> NoRecurrence] >>,
        rewards |-> <<>>,
        redemptionHistory |-> <<>>] >>

\* device A was used with the local-only version: its localStorage holds a
\* snapshot with children; nobody is signed in
InitLegacy ==
    /\ now = StartOfTime
    /\ currentUser = [d \in Devices |-> NoUser]
    /\ children = [d \in Devices |-> <<>>]
    /\ remoteChildren = InitialChildren
    /\ remoteTasks = InitialTasks
    /\ remoteRewards = InitialRewards
    /\ net = {}
    /\ fetching = [d \in Devices |-> {}]
    /\ taskForm = [d \in Devices |-> NoTaskForm]
    /\ childForm = [d \in Devices |-> NoChildForm]
    /\ uploads = [u \in Runs |-> IdleRun]
    /\ timer = NoTimer
    /\ shown = NoShown
    /\ notified = [d \in Devices |-> {}]
    /\ storage = [d \in Devices |->
            IF d = "A" THEN [NoStorage EXCEPT !.stored = TRUE, !.children = LegacyChildren]
            ELSE NoStorage]
    /\ migration = [d \in Devices |-> NoMigration]
    /\ out = "none"

\* for (const child of data.children): the next child, or the end of the loop
MigrationNext(run) == [run EXCEPT !.queue = Tail(@), !.pc = "check"]

\* the existence check of the next child; after the last child
\* localStorage.setItem(MIGRATION_FLAG, 'true'), return true, and
\* triggerMigration awaits fetchFamilyData()
MigrateCheck(d) ==
    /\ migration[d].pc = "check"
    /\ IF migration[d].queue = <<>>
       THEN /\ migration' = [migration EXCEPT ![d] = NoMigration]
            /\ storage' = [storage EXCEPT ![d].flag = TRUE]
            /\ fetching' = [fetching EXCEPT ![d] =
                    IF currentUser[d] # NoUser /\ Cardinality(@) < MaxFetch
                    THEN @ \cup {DbFetchFamilyData} ELSE @]
       ELSE /\ migration' = [migration EXCEPT ![d] =
                    IF ExistingChild(Head(@.queue)) THEN MigrationNext(@)
                    ELSE [@ EXCEPT !.pc = "insertChild"]]
            /\ UNCHANGED <<storage, fetching>>
    /\ Quiet
    /\ UNCHANGED <<shown, notified, now, currentUser, children, remoteChildren, remoteTasks, remoteRewards,
                   net, taskForm, childForm, uploads, timer>>

\* insert of the child row; childError -> continue
MigrateInsertChild(d) ==
    /\ migration[d].pc = "insertChild"
    /\ LET child == Head(migration[d].queue)
           ok == InsertAccepted(remoteChildren, <<ChildRow(child)>>, FALSE)
       IN  /\ remoteChildren' = InsertRows(remoteChildren, <<ChildRow(child)>>, FALSE)
           /\ migration' = [migration EXCEPT ![d] =
                    IF ok THEN [@ EXCEPT !.pc = "insertTasks"] ELSE MigrationNext(@)]
           /\ Logged("migration.insertChild", ~(ok))
    /\ UNCHANGED <<shown, notified, storage, now, currentUser, children, remoteTasks, remoteRewards,
                   net, fetching, taskForm, childForm, uploads, timer>>

\* insert of the child's tasks, when it has any; taskError is logged
MigrateInsertTasks(d) ==
    /\ migration[d].pc = "insertTasks"
    /\ LET child == Head(migration[d].queue)
           rows == MapSeq(child.tasks, LAMBDA t : TaskRow(child.id, t))
       IN  /\ remoteTasks' = IF rows = <<>> THEN remoteTasks ELSE InsertRows(remoteTasks, rows, TRUE)
           /\ Logged("migration.insertTasks",
                     rows # <<>> /\ ~(InsertAccepted(remoteTasks, rows, TRUE)))
    /\ migration' = [migration EXCEPT ![d].pc = "insertRewards"]
    /\ UNCHANGED <<shown, notified, storage, now, currentUser, children, remoteChildren, remoteRewards,
                   net, fetching, taskForm, childForm, uploads, timer>>

\* insert of the child's rewards, when it has any; rewardError is logged
MigrateInsertRewards(d) ==
    /\ migration[d].pc = "insertRewards"
    /\ LET child == Head(migration[d].queue)
           rows == MapSeq(child.rewards, LAMBDA r : RewardRow(child.id, r))
       IN  /\ remoteRewards' = IF rows = <<>> THEN remoteRewards ELSE InsertRows(remoteRewards, rows, TRUE)
           /\ Logged("migration.insertRewards",
                     rows # <<>> /\ ~(InsertAccepted(remoteRewards, rows, TRUE)))
    /\ migration' = [migration EXCEPT ![d] = MigrationNext(@)]
    /\ UNCHANGED <<shown, notified, storage, now, currentUser, children, remoteChildren, remoteTasks,
                   net, fetching, taskForm, childForm, uploads, timer>>

Migrate(d) ==
    MigrateCheck(d) \/ MigrateInsertChild(d) \/ MigrateInsertTasks(d) \/ MigrateInsertRewards(d)

\* the page is closed or reloaded: the React state is the initial state again
\* and what was awaited is abandoned; localStorage and the requests already
\* sent stay
Reload(d) ==
    /\ currentUser[d] # NoUser
    /\ currentUser' = [currentUser EXCEPT ![d] = NoUser]
    /\ children' = [children EXCEPT ![d] = <<>>]
    /\ fetching' = [fetching EXCEPT ![d] = {}]
    /\ taskForm' = [taskForm EXCEPT ![d] = NoTaskForm]
    /\ childForm' = [childForm EXCEPT ![d] = NoChildForm]
    /\ migration' = [migration EXCEPT ![d] = NoMigration]
    /\ uploads' = [u \in Runs |-> IF uploads[u].dev = d THEN IdleRun ELSE uploads[u]]
    /\ timer' = IF d = "A" THEN NoTimer ELSE timer
    /\ Quiet
    /\ UNCHANGED <<shown, notified, storage, now, remoteChildren, remoteTasks, remoteRewards, net>>

-----------------------------------------------------------------------------
(* Parent settings: children *)

openAddChild(d) ==
    /\ CanUse(d)
    /\ childForm' = [childForm EXCEPT ![d] = [open |-> TRUE, editing |-> FALSE, editingChild |-> NoChild]]
    /\ Quiet
    /\ UNCHANGED <<shown, notified, storage, migration, now, currentUser, children, remoteChildren, remoteTasks, remoteRewards,
                   net, fetching, taskForm, uploads, timer>>

\* setEditingChild(child): the modal keeps the child object it was opened on
openEditChild(d, childId) ==
    /\ CanUse(d)
    /\ childId \in Ids(children[d])
    /\ childForm' = [childForm EXCEPT ![d] =
            [open |-> TRUE, editing |-> TRUE, editingChild |-> Find(children[d], childId)]]
    /\ Quiet
    /\ UNCHANGED <<shown, notified, storage, migration, now, currentUser, children, remoteChildren, remoteTasks, remoteRewards,
                   net, fetching, taskForm, uploads, timer>>

cancelChild(d) ==
    /\ childForm[d].open
    /\ childForm' = [childForm EXCEPT ![d] = NoChildForm]
    /\ Quiet
    /\ UNCHANGED <<shown, notified, storage, migration, now, currentUser, children, remoteChildren, remoteTasks, remoteRewards,
                   net, fetching, taskForm, uploads, timer>>

addChild(d, child) ==
    /\ children' = [children EXCEPT ![d] = @ \o <<child>>]
    /\ IF HasFamily(d) THEN uploadFamilyData(d, <<child>>) ELSE UNCHANGED uploads
    /\ Quiet

\* { ...editingChild, name, age, avatar, loveLanguages }
EditedChild(editingChild, name) == [editingChild EXCEPT !.name = name]

updateChild(d, updatedChild) ==
    /\ children' = [children EXCEPT ![d] =
            MapSeq(@, LAMBDA c : IF c.id = updatedChild.id THEN updatedChild ELSE c)]
    /\ IF HasFamily(d) THEN uploadFamilyData(d, <<updatedChild>>) ELSE UNCHANGED uploads
    /\ Quiet

NewChild(name) ==
    [id |-> now, name |-> name, stars |-> 0, active |-> FALSE,
     tasks |-> <<>>, rewards |-> <<>>, redemptionHistory |-> <<>>]

saveChild(d, name) ==
    /\ childForm[d].open
    /\ IF name = ""
       THEN /\ Quiet
            /\ UNCHANGED <<children, uploads, childForm>>
       ELSE /\ IF childForm[d].editing
               THEN updateChild(d, EditedChild(childForm[d].editingChild, name))
               ELSE /\ ~HasId(children[d], now)
                    /\ Len(children[d]) < MaxItems
                    /\ addChild(d, NewChild(name))
            /\ childForm' = [childForm EXCEPT ![d] = NoChildForm]
    /\ UNCHANGED <<shown, notified, storage, migration, now, currentUser, remoteChildren, remoteTasks, remoteRewards,
                   net, fetching, taskForm, timer>>

deleteChild(d, id) ==
    /\ CanUse(d)
    /\ Room
    /\ id \in Ids(children[d])
    /\ children' = [children EXCEPT ![d] = FilterSeq(@, LAMBDA c : c.id # id)]
    /\ Issue(IF HasFamily(d) THEN {[op |-> "children.delete", dev |-> d, id |-> id]} ELSE {})
    /\ Quiet
    /\ UNCHANGED <<shown, notified, storage, migration, now, currentUser, remoteChildren, remoteTasks, remoteRewards,
                   fetching, taskForm, childForm, uploads, timer>>

\* the Sync button: children.length > 0 && uploadFamilyData(children)
onSyncData(d) ==
    /\ CanUse(d)
    /\ children[d] # <<>>
    /\ ~UploadSkipped(d, children[d])
    /\ uploadFamilyData(d, children[d])
    /\ Quiet
    /\ UNCHANGED <<shown, notified, storage, migration, now, currentUser, children, remoteChildren, remoteTasks, remoteRewards,
                   net, fetching, taskForm, childForm, timer>>

-----------------------------------------------------------------------------
(* Groups of handlers *)

Session(d) == SignIn(d) \/ FetchQuery(d) \/ FetchApply(d)

Store == \E req \in net : Deliver(req)

\* the reward cards the catalog renders: those of the active child
Offered(d) == IF children[d] = <<>> THEN {} ELSE Range(ActiveChild(children[d]).rewards)

\* the rewards catalog, and the guardian repricing a reward
Catalog(d) ==
    \/ \E r \in Offered(d), n \in Notes :
          \/ handleRedeem(d, r, n)
          \/ \E c \in {ActiveChild(children[d]).id, 0} : RedeemCall(d, c, r, n)
    \/ \E c \in Ids(children[d]) : switchActiveChild(d, c)
    \/ \E c \in Range(children[d]), k \in Costs :
          \E r \in Range(c.rewards) : updateReward(d, c.id, r.id, r.title, k)

\* the child portal: Start and Complete on the cards of the active child
Portal(d) ==
    \E t \in UNION {Ids(c.tasks) : c \in Range(children[d])} :
        handleStart(d, t) \/ handleComplete(d, t)

\* useState(children[0]?.id): the dashboard opens on the first child
FirstChild(d) == IF children[d] = <<>> THEN {} ELSE {children[d][1].id}

\* the task modal of the dashboard, opened for the first child
TaskModal(d) ==
    \/ \E c \in FirstChild(d) :
          \/ openAddTask(d, c)
          \/ \E t \in Ids(Find(children[d], c).tasks) : handleEditTaskRequest(d, c, t)
    \/ cancelTask(d)
    \/ \E t \in {"n2", ""}, h \in Times, m \in Durations : handleSaveTask(d, t, h, m)

Retry == \E req \in net : DeliverRetried(req)

-----------------------------------------------------------------------------
(* One device in the rewards catalog *)

NextRedeem == Tick \/ Store \/ Session("A") \/ Catalog("A")

SpecRedeem == Init /\ [][NextRedeem]_vars

-----------------------------------------------------------------------------
(* Two devices redeeming for the same child *)

NextDevices ==
    \/ Store
    \/ \E d \in Devices :
          \/ Session(d)
          \/ \E r \in Offered(d), n \in Notes : handleRedeem(d, r, n)

SpecDevices == Init /\ [][NextDevices]_vars

-----------------------------------------------------------------------------
(* One device in the child portal *)

NextPortal ==
    \/ Tick
    \/ Store
    \/ Session("A")
    \/ Portal("A")
    \/ \E c \in Ids(children["A"]) : switchActiveChild("A", c)

SpecPortal == Init /\ [][NextPortal]_vars

-----------------------------------------------------------------------------
(* One device between the task modal and the child portal, pushes retried *)

NextEdit == Store \/ Retry \/ Session("A") \/ Portal("A") \/ TaskModal("A")

SpecEdit == Init /\ [][NextEdit]_vars

-----------------------------------------------------------------------------
(* One device in the child portal with the countdown of a started task *)

NextTimer ==
    \/ \E ms \in PollGaps : Elapse(ms)
    \/ Store
    \/ Session("A")
    \/ Portal("A")
    \/ \E task \in PortalTasks : TimerMount(task) \/ TimerRerun(task)
    \/ TimerUnmount
    \/ TimerTick

SpecTimer == Init /\ [][NextTimer]_vars

-----------------------------------------------------------------------------
(* Two devices uploading a family whose first child the store has lost *)

Upload(u) ==
    \/ UploadCheck(u) \/ UploadInsertChild(u) \/ UploadInsertTasks(u)
    \/ UploadInsertRewards(u) \/ UploadUpdate(u) \/ UploadRefetch(u)

NextUpload ==
    \/ \E d \in Devices : onSyncData(d) \/ FetchQuery(d) \/ FetchApply(d)
    \/ \E u \in Runs : Upload(u)

SpecUpload == InitAfterDelete /\ [][NextUpload]_vars

-----------------------------------------------------------------------------
(* A device with a legacy snapshot signing in, again after every restart *)

NextMigrate ==
    \/ \E d \in Devices : SignIn(d) \/ Reload(d) \/ FetchQuery(d) \/ FetchApply(d)
    \/ Migrate("A")

SpecMigrate == InitLegacy /\ [][NextMigrate]_vars

-----------------------------------------------------------------------------
(* Two subscribed devices: every change of the store is announced to both *)

Notified == \E req \in net : DeliverNotified(req)

NextSync ==
    \/ Tick
    \/ Notified
    \/ \E d \in Devices : Portal(d) \/ FetchApply(d)

SpecSync == InitSynced /\ [][NextSync]_vars

-----------------------------------------------------------------------------
(* Two subscribed devices signing out and in *)

NextSession ==
    \/ Notified
    \/ \E d \in Devices : Session(d) \/ Logout(d) \/ Portal(d)

SpecSession == InitSynced /\ [][NextSession]_vars

-----------------------------------------------------------------------------
(* One device whose pushes may fail *)

Failing == \E req \in net : Fail(req)

NextFail == Store \/ Failing \/ Session("A") \/ Portal("A") \/ TaskModal("A")

SpecFail == Init /\ [][NextFail]_vars

-----------------------------------------------------------------------------------------------------------------------------------------------------
(* A device whose pushes fail while the store is out of reach, with every
   later pass that could push again: further mutations, the manual sync,
   re-fetches *)

\* the modal used to add tasks to the first child
AddTaskModal(d) ==
    \/ \E c \in FirstChild(d) : openAddTask(d, c)
    \/ cancelTask(d)
    \/ \E h \in Times, m \in Durations : handleSaveTask(d, "n2", h, m)

\* the steps of an upload run for children the store holds
Reupload(u) == UploadCheck(u) \/ UploadUpdate(u) \/ UploadRefetch(u)

\* the store is out of reach until the clock moves
Outage == now = StartOfTime /\ Failing

NextRetry ==
    \/ Tick
    \/ Store
    \/ Outage
    \/ AddTaskModal("A")
    \/ onSyncData("A")
    \/ FetchApply("A")
    \/ \E u \in Runs : Reupload(u)

\* the outage ends, whatever is pending is carried out, modals are closed,
\* and the guardian syncs again and again
SpecRetry ==
    /\ InitSynced
    /\ [][NextRetry]_vars
    /\ WF_vars(Tick)
    /\ WF_vars(Store)
    /\ WF_vars(cancelTask("A"))
    /\ SF_vars(onSyncData("A"))
    /\ WF_vars(FetchApply("A"))
    /\ WF_vars(\E u \in Runs : Reupload(u))

-----------------------------------------------------------------------------------------------------------------------------------------------------
(* One device in the settings: children added, deleted, switched. No time
   passes, so the upload of a child just added is skipped as brand new. *)

Family(d) ==
    \/ openAddChild(d)
    \/ cancelChild(d)
    \/ saveChild(d, "n2")
    \/ \E c \in Ids(children[d]) : deleteChild(d, c) \/ switchActiveChild(d, c)

NextFamily == Store \/ Session("A") \/ Family("A")

SpecFamily == Init /\ [][NextFamily]_vars

-----------------------------------------------------------------------------
(* One device saving tasks from the task modal and from the import table *)

TableImport(d) ==
    \E c \in FirstChild(d) :
        \/ \E rows \in TableRows : handleSaveTableImport(d, c, rows)
        \/ \E t \in Ids(Find(children[d], c).tasks) : onDeleteTask(d, c, t)

NextImport == Store \/ Session("A") \/ TaskModal("A") \/ TableImport("A")

SpecImport == Init /\ [][NextImport]_vars

-----------------------------------------------------------------------------
(* The views rendering time texts *)

\* the texts a task's time can hold: null or empty, and an hour, a colon, a
\* minute and a period, typed with or without a space
HourTexts ==
    {<<>>, <<"0">>, <<"9">>, <<"0", "9">>, <<"1", "2">>, <<"1", "3">>, <<"2", "5">>, <<"x", "x">>}
MinuteTexts == {<<"0", "0">>, <<"3", "0">>, <<"5", "9">>}
PeriodTexts == {<<>>, AM, PM, <<"a", "m">>, <<"p", "m">>}
TimeTexts ==
    {<<>>, <<"x", "x", " ", "P", "M">>}
    \cup {h \o <<":">> \o m \o gap \o period :
             h \in HourTexts, m \in MinuteTexts, gap \in {<<>>, <<" ">>}, period \in PeriodTexts}

\* a task's time waits to be rendered in one of the views, or the import
\* table holds a row time built from a minute of the day
InitTime ==
    /\ now = StartOfTime
    /\ currentUser = [d \in Devices |-> NoUser]
    /\ children = [d \in Devices |-> <<>>]
    /\ remoteChildren = InitialChildren
    /\ remoteTasks = InitialTasks
    /\ remoteRewards = InitialRewards
    /\ net = {}
    /\ fetching = [d \in Devices |-> {}]
    /\ taskForm = [d \in Devices |-> NoTaskForm]
    /\ childForm = [d \in Devices |-> NoChildForm]
    /\ uploads = [u \in Runs |-> IdleRun]
    /\ timer = NoTimer
    /\ \/ \E view \in Views, timeStr \in TimeTexts, format \in Formats :
             shown = [NoShown EXCEPT !.view = view, !.timeStr = timeStr, !.format = format]
       \/ \E mins \in 0..(MinutesPerDay - 1), format \in Formats :
             shown = NextRowTime(mins, format)
    /\ notified = [d \in Devices |-> {}]
    /\ storage = [d \in Devices |-> NoStorage]
    /\ migration = [d \in Devices |-> NoMigration]
    /\ out = "none"

NextTime ==
    \/ shown.text = <<>> /\ displayTime(shown.view, shown.timeStr, shown.format)
    \/ \E view \in Views : redisplay(view)

SpecTime == InitTime /\ [][NextTime]_vars

-----------------------------------------------------------------------------
(* One device saving tasks with a recurrence rule *)

Frequencies == {"none", "daily", "weekly", "monthly"}
\* getDay() of Monday and Tuesday; a day of the month typed into the field
WeekDays == {1, 2}
DaysOfMonth == {31, 32}

RecurrenceForm(d) ==
    \/ \E freq \in Frequencies : setRecurrenceFreq(d, freq)
    \/ \E day \in WeekDays : toggleRecurrenceDay(d, day)
    \/ \E day \in DaysOfMonth : setRecurrenceDayOfMonth(d, day)

NextRecur == Store \/ Session("A") \/ AddTaskModal("A") \/ RecurrenceForm("A")

SpecRecur == Init /\ [][NextRecur]_vars

-----------------------------------------------------------------------------
(* Two devices polling for due tasks through a week *)

\* Date.prototype.getDay and the minute of the day of an instant (UTC; 1
\* January 1970 was a Thursday)
getDay(ms) == ((ms \div (MinutesPerDay * MsPerMinute)) + 4) % 7
MinuteOfDay(ms) == (ms \div MsPerMinute) % MinutesPerDay

\* now.toLocaleTimeString([], { hour: '2-digit', minute: '2-digit', hour12: true })
\* as the en-US locale writes it
nowStr == TimeText(MinuteOfDay(now) \div 60, MinuteOfDay(now) % 60, "12h")

\* one call of the checkAlarms interval: a Notification for every pending
\* task whose time text equals nowStr
checkAlarms(d) ==
    /\ notified' = [notified EXCEPT ![d] =
            {t.id : t \in {t \in UNION {Range(c.tasks) : c \in Range(children[d])} :
                              t.status = "pending" /\ t.time = nowStr}}]
    /\ Quiet
    /\ UNCHANGED <<shown, storage, migration, now, currentUser, children, remoteChildren,
                   remoteTasks, remoteRewards, net, fetching, taskForm, childForm, uploads, timer>>

\* getCurrentActiveTaskFromSchedule of the child portal: tasks.find over the
\* active child's tasks, as the set holding the task found
getCurrentActiveTaskFromSchedule(d) ==
    IF children[d] = <<>> THEN {}
    ELSE LET tasks == ActiveChild(children[d]).tasks
             nowMinutes == MinuteOfDay(now)
             Current(task) ==
                 LET startMins == portalParseTimeToMinutes(task.time)
                 IN  startMins # NaN /\ nowMinutes >= startMins
                                     /\ nowMinutes < startMins + task.duration
         IN  {tasks[i] : i \in {k \in 1..Len(tasks) :
                                   Current(tasks[k]) /\ \A j \in 1..(k - 1) : ~Current(tasks[j])}}

\* a rule for Monday, Wednesday and Friday, and the store holding it on task 1
MonWedFri == [frequency |-> "weekly", days |-> {1, 3, 5}, dayOfMonth |-> 0]
WeeklyTasks == [InitialTasks EXCEPT ![1].recurrence = MonWedFri]

\* the minute before the tasks of the family are due, on each day of a week
BeforeNine == parseTimeToMinutes(NineAM) - 1
AlarmInstants == {(day * MinutesPerDay + BeforeNine) * MsPerMinute : day \in 3..9}

InitAlarm ==
    /\ now \in AlarmInstants
    /\ currentUser = [d \in Devices |-> FamilyUser(d)]
    /\ children = [d \in Devices |->
            MapSeq(InitialChildren, LAMBDA c : ChildOf(c, WeeklyTasks, InitialRewards))]
    /\ remoteChildren = InitialChildren
    /\ remoteTasks = WeeklyTasks
    /\ remoteRewards = InitialRewards
    /\ net = {}
    /\ fetching = [d \in Devices |-> {}]
    /\ taskForm = [d \in Devices |-> NoTaskForm]
    /\ childForm = [d \in Devices |-> NoChildForm]
    /\ uploads = [u \in Runs |-> IdleRun]
    /\ timer = NoTimer
    /\ shown = NoShown
    /\ notified = [d \in Devices |-> {}]
    /\ storage = [d \in Devices |->
            [stored |-> TRUE, user |-> FamilyUser(d), children |-> <<>>, flag |-> TRUE]]
    /\ migration = [d \in Devices |-> NoMigration]
    /\ out = "none"

\* a minute passes
Minute ==
    /\ MinuteOfDay(now) <= BeforeNine + MaxTicks
    /\ now' = now + MsPerMinute
    /\ Quiet
    /\ UNCHANGED <<shown, notified, storage, migration, currentUser, children, remoteChildren,
                   remoteTasks, remoteRewards, net, fetching, taskForm, childForm, uploads, timer>>

NextAlarm == Minute \/ Store \/ Portal("A") \/ \E d \in Devices : checkAlarms(d)

SpecAlarm == InitAlarm /\ [][NextAlarm]_vars

-----------------------------------------------------------------------------
(* One device adding a child and a task for it, with everything the
   application does by itself taken to completion *)

NextGuard == Tick \/ Store \/ Session("A") \/ Family("A") \/ AddTaskModal("A")

SpecGuard ==
    /\ Init
    /\ [][NextGuard]_vars
    /\ WF_vars(Tick)
    /\ WF_vars(Store)
    /\ WF_vars(FetchQuery("A"))
    /\ WF_vars(FetchApply("A"))

-----------------------------------------------------------------------------
(* Two devices whose sign-in attempts find the profile, time out or fail *)

NextAuth ==
    \/ Store
    \/ Portal("A")
    \/ \E d \in Devices :
          \/ \E result \in ProfileResults : onAuthStateChange(d, result)
          \/ FetchQuery(d)
          \/ FetchApply(d)
          \/ Logout(d)

SpecAuth == Init /\ [][NextAuth]_vars

-----------------------------------------------------------------------------
(* Properties of redemption *)

ChildIds(d) == Ids(children[d]) \cup {0}
KnownRewards(d) == UNION {Range(c.rewards) : c \in Range(children[d])}

\* a step in which device d calls redeemReward(childId, reward)
RedeemStep(d, childId, reward, note) ==
    \/ RedeemCall(d, childId, reward, note)
    \/ handleRedeem(d, reward, note) /\ childId = ActiveChild(children[d]).id

CannotPay(d, childId, reward) ==
    \/ ~HasId(children[d], childId)
    \/ Find(children[d], childId).stars < reward.cost

\* C1: redeemReward(childId, reward) called when the child does not exist or
\* has fewer stars than reward.cost returns false and changes nothing: the
\* children (stars and redemptionHistory included) stay as they are and no
\* remote write is issued or executed.
C1_RefusedRedeemChangesNothing ==
    [][\A d \in Devices : \A c \in ChildIds(d), r \in KnownRewards(d), n \in Notes :
          (RedeemStep(d, c, r, n) /\ CannotPay(d, c, r)) =>
              /\ out' = "false"
              /\ children' = children
              /\ net' = net
              /\ <<remoteChildren, remoteTasks, remoteRewards>>' =
                 <<remoteChildren, remoteTasks, remoteRewards>>]_vars

\* a redemption has just been refused
C1_Refused ==
    /\ out = "false"
    /\ children["A"] # <<>>
    /\ net = {}

\* C2: redeemReward(childId, reward) called when the child has at least
\* reward.cost stars returns true, lowers that child's stars by exactly
\* reward.cost and puts exactly one RedemptionRecord in front of its history,
\* carrying the reward's id, title and cost and the current time; nothing else
\* of that child and no other child changes.
C2_RedeemChargesAndRecords ==
    [][\A d \in Devices : \A c \in ChildIds(d), r \in KnownRewards(d), n \in Notes :
          (RedeemStep(d, c, r, n) /\ ~CannotPay(d, c, r)) =>
              /\ out' = "true"
              /\ Len(children'[d]) = Len(children[d])
              /\ \A i \in 1..Len(children[d]) :
                    LET old == children[d][i]
                        new == children'[d][i]
                    IN  IF old.id # c THEN new = old
                        ELSE /\ new.stars = old.stars - r.cost
                             /\ Len(new.redemptionHistory) = Len(old.redemptionHistory) + 1
                             /\ Tail(new.redemptionHistory) = old.redemptionHistory
                             /\ Head(new.redemptionHistory).rewardId = r.id
                             /\ Head(new.redemptionHistory).rewardTitle = r.title
                             /\ Head(new.redemptionHistory).cost = r.cost
                             /\ Head(new.redemptionHistory).timestamp = now
                             /\ [new EXCEPT !.stars = old.stars,
                                            !.redemptionHistory = old.redemptionHistory] = old]_vars

\* a redemption has just succeeded for a child that already had a record,
\* next to another child
C2_Redeemed ==
    /\ out = "true"
    /\ Len(children["A"]) > 1
    /\ \E c \in Range(children["A"]) :
          /\ Len(c.redemptionHistory) > 1
          /\ c.redemptionHistory[1].timestamp > c.redemptionHistory[2].timestamp

\* C3: no handler other than redeemReward changes the stars of a child held in
\* memory, and redeemReward never raises them (the full re-fetch, which
\* replaces the list by the stored one, is not a handler).
C3_StarsOnlyLoweredByRedeem ==
    [][fetching' = fetching =>
          \A d \in Devices : \A c \in Range(children[d]), c2 \in Range(children'[d]) :
              c2.id = c.id =>
                  \/ c2.stars = c.stars
                  \/ out' = "true" /\ c2.stars < c.stars]_vars

\* C4: every child's stars are >= 0 in every reachable state: in each
\* device's memory, in every stars push in flight, in every fetched family not
\* yet applied, and in the stored children rows.
C4_StarsNeverNegative ==
    /\ \A d \in Devices : \A c \in Range(children[d]) : c.stars >= 0
    /\ \A d \in Devices : \A snap \in fetching[d] : \A c \in Range(snap) : c.stars >= 0
    /\ \A req \in net : req.op = "children.updateStars" => req.stars >= 0
    /\ \A c \in Range(remoteChildren) : c.stars >= 0

\* both devices have redeemed for child 1 and the stored balance has reached 0
C4_BothDevicesRedeemed ==
    /\ \A d \in Devices :
          /\ children[d] # <<>>
          /\ children[d][1].redemptionHistory # <<>>
    /\ remoteChildren[1].stars = 0
    /\ children["A"][1].stars # children["B"][1].stars

-----------------------------------------------------------------------------
(* Properties of the task lifecycle *)

Forward(old, new) ==
    \/ new = old
    \/ old = "pending" /\ new = "active"
    \/ old = "active" /\ new = "done"

ShownTasks(d) == IF children[d] = <<>> THEN {} ELSE Range(ActiveChild(children[d]).tasks)

\* C5: through Start and Complete of the child portal a task's status only
\* moves pending -> active -> done: Start acts only on a pending task,
\* Complete only on an active one, and no task moves backward or leaves done.
C5_PortalMovesForward ==
    [][\A d \in Devices : \A t \in ShownTasks(d) :
          /\ handleStart(d, t.id) => t.status = "pending"
          /\ handleComplete(d, t.id) => t.status = "active"
          /\ (handleStart(d, t.id) \/ handleComplete(d, t.id)) =>
                /\ Len(children'[d]) = Len(children[d])
                /\ \A i \in 1..Len(children[d]) :
                      /\ Len(children'[d][i].tasks) = Len(children[d][i].tasks)
                      /\ \A j \in 1..Len(children[d][i].tasks) :
                            Forward(children[d][i].tasks[j].status,
                                    children'[d][i].tasks[j].status)]_vars

\* one task of a child is done while another of its tasks is active
C5_DoneAndActive ==
    \E c \in Range(children["A"]) : \E t, u \in Range(c.tasks) :
        t.status = "done" /\ u.status = "active"

\* the update request of a status change
StatusRequests == {req \in net : req.op = "tasks.updateStatus"}

\* C7: updateTaskStatus(childId, taskId, s) changes only the status and the
\* startTime of the addressed task: status becomes s, startTime becomes the
\* current time exactly when s = active and is kept otherwise; every other
\* field, task and child is unchanged; the one request it issues carries only
\* status and start_time, and the store changes only those two columns of
\* the addressed row.
C7_StatusChangeFrame ==
    [][/\ \A d \in Devices : \A t \in ShownTasks(d), s \in {"active", "done"} :
            ((s = "active" /\ handleStart(d, t.id)) \/ (s = "done" /\ handleComplete(d, t.id))) =>
                LET a == ActiveChild(children[d]).id
                    stamp == IF s = "active" THEN now ELSE t.startTime
                IN  /\ Len(children'[d]) = Len(children[d])
                    /\ \A i \in 1..Len(children[d]) :
                          LET old == children[d][i]
                              new == children'[d][i]
                          IN  IF old.id # a THEN new = old
                              ELSE /\ [new EXCEPT !.tasks = old.tasks] = old
                                   /\ Len(new.tasks) = Len(old.tasks)
                                   /\ \A j \in 1..Len(old.tasks) :
                                         new.tasks[j] =
                                            IF old.tasks[j].id = t.id
                                            THEN [old.tasks[j] EXCEPT !.status = s, !.startTime = stamp]
                                            ELSE old.tasks[j]
                    /\ net' = net \cup
                          {[op |-> "tasks.updateStatus", dev |-> d, id |-> t.id,
                            status |-> s, start_time |-> stamp]}
       /\ \A req \in StatusRequests :
            Deliver(req) =>
                /\ Len(remoteTasks') = Len(remoteTasks)
                /\ \A i \in 1..Len(remoteTasks) :
                      remoteTasks'[i] =
                         IF remoteTasks[i].id = req.id
                         THEN [remoteTasks[i] EXCEPT !.status = req.status, !.start_time = req.start_time]
                         ELSE remoteTasks[i]
                /\ <<remoteChildren, remoteRewards>>' = <<remoteChildren, remoteRewards>>]_vars

\* a task started at one time was completed at a later one, and the stored
\* row has both changes
C7_CompletedLater ==
    /\ \E c \in Range(children["A"]) : \E t \in Range(c.tasks) :
          t.status = "done" /\ t.startTime # NoTime /\ t.startTime < now
    /\ \E r \in Range(remoteTasks) :
          r.status = "done" /\ r.start_time # NoTime /\ r.start_time < now

-----------------------------------------------------------------------------
(* Properties of the task modal and of the task pushes *)

\* device d saves the edit form of an existing task with inputs that pass
\* the form's checks
SaveEdit(d, title, time, duration) ==
    /\ handleSaveTask(d, title, time, duration)
    /\ taskForm[d].editingTaskId # 0
    /\ taskForm'[d] = NoTaskForm

EditedTasks(d) ==
    {t \in Range(SelectedChild(children'[d], taskForm[d].childId).tasks) :
        t.id = taskForm[d].editingTaskId}

UpdateRequests == {req \in net : req.op = "tasks.update"}

\* C6 (as the code has it): the edit form opens on a copy of the task, status
\* and startTime included; saving the edit writes that copy's status and
\* startTime, with the edited fields, over the task in memory and sends them
\* in the update request, and the store writes them into the task row: an
\* edit does not reset the status or clear the startTime.
C6_EditKeepsStatus ==
    [][/\ \A d \in Devices : \A c \in Range(children[d]) : \A t \in Range(c.tasks) :
            handleEditTaskRequest(d, c.id, t.id) =>
                /\ taskForm'[d].newTask.status = t.status
                /\ taskForm'[d].newTask.startTime = t.startTime
       /\ \A d \in Devices : \A title \in Titles, time \in Times, duration \in Durations :
            SaveEdit(d, title, time, duration) =>
                /\ \A t \in EditedTasks(d) :
                      /\ t.status = taskForm[d].newTask.status
                      /\ t.startTime = taskForm[d].newTask.startTime
                      /\ t.title = title
                /\ \E req \in net' :
                      /\ net' = net \cup {req}
                      /\ req.op = "tasks.update"
                      /\ req.id = taskForm[d].editingTaskId
                      /\ req.row.status = taskForm[d].newTask.status
                      /\ req.row.startTime = taskForm[d].newTask.startTime
       /\ \A req \in UpdateRequests :
            Deliver(req) =>
                \A r \in Range(remoteTasks') :
                    r.id = req.id => r.status = req.row.status /\ r.start_time = req.row.startTime]_vars

\* the edit of a started task has been saved and stored: the task is still
\* active, with its startTime, in memory and in its row
C6_ActiveAfterEdit ==
    /\ ~taskForm["A"].open
    /\ \E c \in Range(children["A"]) : \E t \in Range(c.tasks) :
          t.title = "n2" /\ t.status = "active" /\ t.startTime # NoTime
    /\ \E r \in Range(remoteTasks) :
          r.title = "n2" /\ r.status = "active" /\ r.start_time # NoTime

\* C6 as stated: saving the edit of a task leaves it pending with no
\* startTime, in memory and in the request sent to the store.
C6_EditResetsStatus ==
    [][\A d \in Devices : \A title \in Titles, time \in Times, duration \in Durations :
          SaveEdit(d, title, time, duration) =>
              /\ \A t \in EditedTasks(d) : t.status = "pending" /\ t.startTime = NoTime
              /\ \A req \in net' \ net :
                    req.row.status = "pending" /\ req.row.startTime = NoTime]_vars

InsertRequests == {req \in net : req.op = "tasks.insert"}

\* the store executes an insert request, whether or not its answer arrives
Pushed(req) == Deliver(req) \/ DeliverRetried(req)

Max(a, b) == IF a > b THEN a ELSE b

\* C8: for an active task started at T with a duration of d minutes, every
\* poll computes the remaining time max(0, T + d*60000 - now): it is never
\* negative, it is shown as its whole minutes and seconds, it is 0 at every
\* poll with now >= T + d minutes, and the poll that computes 0 stops the
\* interval: nothing is computed again until the effect runs again.
C8_RemainingTime ==
    [][/\ TimerTick =>
            LET T == timer.task.startTime
                d == timer.task.duration
                remaining == Max(0, T + d * 60000 - now)
            IN  /\ timer'.left = remaining
                /\ timer'.left >= 0
                /\ timer'.timeLeft = <<remaining \div 60000, (remaining % 60000) \div 1000>>
                /\ now >= T + d * 60000 => timer'.left = 0
                /\ timer'.running = (remaining > 0)
       /\ (timer.mounted /\ ~timer.running /\ timer'.mounted /\ ~timer'.running) =>
            timer'.left = timer.left /\ timer'.timeLeft = timer.timeLeft]_vars

\* the countdown of a started task has reached 0 after its duration and has
\* stopped
C8_CountdownOver ==
    /\ timer.mounted
    /\ ~timer.running
    /\ timer.timeLeft = <<0, 0>>
    /\ timer.left = 0
    /\ now > timer.task.startTime + timer.task.duration * 60000

\* C9 (as the code has it): however often the insert of a new task is
\* pushed, the tasks table never holds two rows with one id, and it holds
\* exactly one with the pushed id once a push for a stored child was
\* executed; a push that finds the row already there changes nothing in the
\* store or in memory, and its rejection is logged with console.error like
\* any other failed insert.
C9_RepeatedInsertOneRow ==
    [][\A req \in InsertRequests :
          Pushed(req) =>
              /\ \A id \in Ids(remoteTasks') : CountId(remoteTasks', id) = 1
              /\ HasId(remoteChildren, req.rows[1].child_id) => CountId(remoteTasks', req.id) = 1
              /\ HasId(remoteTasks, req.id) =>
                    /\ remoteTasks' = remoteTasks
                    /\ children' = children
                    /\ out' = "error: tasks.insert"]_vars

\* the second push of a task has been answered: one row, one logged error
C9_SecondPushAnswered ==
    /\ out = "error: tasks.insert"
    /\ net = {}
    /\ \E r \in Range(remoteTasks) : r.id = now /\ CountId(remoteTasks, r.id) = 1

\* C9 as stated: the second push of a task is answered as a non-error
\* outcome.
C9_SecondPushNoError ==
    [][\A req \in InsertRequests :
          (Pushed(req) /\ HasId(remoteTasks, req.id)) =>
              /\ remoteTasks' = remoteTasks
              /\ out' = "none"]_vars

-----------------------------------------------------------------------------
(* Properties of uploadFamilyData *)

OneRowPerId(table) == \A id \in Ids(table) : CountId(table, id) = 1

\* C10: under every interleaving of two runs of uploadFamilyData for the same
\* child id, from two devices or from one, both existence checks answering
\* "absent" included, the children table holds exactly one row with that id
\* after each attempt to insert the child and whenever a run is done with the
\* child, and no table holds two rows with one id after any step of a run.
C10_ConcurrentUploadsOneRow ==
    [][\A u \in Runs :
          /\ UploadInsertChild(u) => CountId(remoteChildren', Head(uploads[u].queue).id) = 1
          /\ Upload(u) /\ Len(uploads'[u].queue) < Len(uploads[u].queue)
                => CountId(remoteChildren', Head(uploads[u].queue).id) = 1
          /\ Upload(u) =>
                /\ OneRowPerId(remoteChildren')
                /\ OneRowPerId(remoteTasks')
                /\ OneRowPerId(remoteRewards')]_vars

\* two runs of different devices both found the child absent; one has
\* inserted it with its tasks, the insert of the other has just been rejected
C10_SecondInsertRejected ==
    /\ out = "error: upload.insertChild"
    /\ uploads["u1"].pc # "idle"
    /\ uploads["u2"].pc # "idle"
    /\ uploads["u1"].dev # uploads["u2"].dev
    /\ CountId(remoteChildren, LostChild) = 1
    /\ \E t \in Range(remoteTasks) : t.child_id = LostChild

-----------------------------------------------------------------------------
(* Properties of migrateLocalStorageToSupabase *)

Store3 == <<remoteChildren, remoteTasks, remoteRewards>>

\* C11: a run of the migration that starts after a run has completed on the
\* same snapshot (the flag is set) finds every child present: no existence
\* check sends it to an insert and it leaves the three tables as they are;
\* and no step of any run leaves two rows with one id in a table, so each
\* child, task and reward is inserted at most once.
C11_SecondRunInsertsNothing ==
    [][\A d \in Devices :
          /\ storage[d].flag /\ MigrateCheck(d) => migration'[d].pc # "insertChild"
          /\ storage[d].flag /\ Migrate(d) => Store3' = Store3
          /\ Migrate(d) =>
                /\ OneRowPerId(remoteChildren')
                /\ OneRowPerId(remoteTasks')
                /\ OneRowPerId(remoteRewards')]_vars

\* a second run has checked every child of the snapshot and is about to end
C11_SecondRunChecked ==
    /\ storage["A"].flag
    /\ storage["A"].children = LegacyChildren
    /\ migration["A"] = [pc |-> "check", queue |-> <<>>]
    /\ \A c \in Range(LegacyChildren) : CountId(remoteChildren, c.id) = 1

Migrated(child) ==
    /\ CountId(remoteChildren, child.id) = 1
    /\ \A t \in Range(child.tasks) : CountId(remoteTasks, t.id) = 1
    /\ \A r \in Range(child.rewards) : CountId(remoteRewards, r.id) = 1

\* C12: once a run of the migration has completed, after whatever
\* interrupted runs, every child of the snapshot and every one of its tasks
\* and rewards is in the store, once.
C12_ResumedMigrationConverges ==
    \A d \in Devices :
        (storage[d].flag /\ migration[d].pc = "idle") =>
            \A child \in Range(storage[d].children) : Migrated(child)

\* C13: with the migration flag set, migrateLocalStorageToSupabase sends no
\* query and no insert to the store.
C13_FlagStopsMigration ==
    [][\A d \in Devices : storage[d].flag => ~Migrate(d)]_vars

-----------------------------------------------------------------------------
(* Properties of the full re-fetch *)

RowsOf(table, childId) == {i \in 1..Len(table) : table[i].child_id = childId}

\* list is the family the store holds: its children rows in order, each with
\* exactly its task rows and its reward rows
RemoteGraphIs(list) ==
    /\ Len(list) = Len(remoteChildren)
    /\ \A i \in 1..Len(list) :
          LET c == list[i]
              row == remoteChildren[i]
          IN  /\ c.id = row.id /\ c.name = row.name
              /\ c.stars = row.stars /\ c.active = row.active
              /\ Len(c.tasks) = Cardinality(RowsOf(remoteTasks, row.id))
              /\ \A j \in RowsOf(remoteTasks, row.id) : \E t \in Range(c.tasks) :
                    LET r == remoteTasks[j] IN
                        /\ t.id = r.id /\ t.title = r.title /\ t.time = r.time
                        /\ t.duration = r.duration /\ t.status = r.status
                        /\ t.startTime = r.start_time
              /\ Len(c.rewards) = Cardinality(RowsOf(remoteRewards, row.id))
              /\ \A j \in RowsOf(remoteRewards, row.id) : \E w \in Range(c.rewards) :
                    LET r == remoteRewards[j] IN
                        w.id = r.id /\ w.title = r.title /\ w.cost = r.cost

\* C14: the answer of the family query is exactly the children rows of the
\* store with their task and reward rows, and when fetchFamilyData applies an
\* answer the in-memory children list is that answer and nothing else:
\* whatever the list held before, entities not yet in the store included, is
\* gone.
C14_FetchReplacesChildren ==
    [][\A d \in Devices :
          /\ FetchQuery(d) =>
                \E snap \in fetching'[d] :
                    RemoteGraphIs(snap) /\ fetching'[d] = fetching[d] \cup {snap}
          /\ FetchApply(d) =>
                /\ children'[d] \in fetching[d]
                /\ fetching[d] = {children'[d]} \cup fetching'[d]]_vars

\* device A added a task whose insert has not reached the store; the list of
\* A is again the family of the store, without that task
C14_LocalTaskGone ==
    \E req \in net :
        /\ req.op = "tasks.insert" /\ req.dev = "A"
        /\ ~HasId(remoteTasks, req.rows[1].id)
        /\ RemoteGraphIs(children["A"])
        /\ \A c \in Range(children["A"]) : ~HasId(c.tasks, req.rows[1].id)
        /\ fetching["A"] = {}

\* nothing is in flight: no push, no re-fetch, no upload, no migration
NothingInFlight ==
    /\ net = {}
    /\ \A d \in Devices : fetching[d] = {}
    /\ \A u \in Runs : uploads[u] = IdleRun
    /\ \A d \in Devices : migration[d] = NoMigration

\* C15: whenever every push, every notification and every re-fetch has
\* completed, the children list of every subscribed device is the family the
\* store holds.
C15_QuietDevicesHoldTheStore ==
    NothingInFlight => \A d \in Devices : HasFamily(d) => RemoteGraphIs(children[d])

\* C16: after logout has cleared the state, nothing writes to it: the
\* children list of a device nobody is signed in to is empty.
C16_SignedOutStaysEmpty ==
    \A d \in Devices : currentUser[d] = NoUser => children[d] = <<>>

-----------------------------------------------------------------------------
(* Properties of failed pushes *)

AddedTask == StartOfTime

\* a device shows the task, the store does not hold it, and no request
\* carries it: its push has failed
PushFailed(id) ==
    /\ ~HasId(remoteTasks, id)
    /\ \A req \in net : req.op = "tasks.insert" => req.rows[1].id # id
    /\ \E d \in Devices : \E c \in Range(children[d]) : HasId(c.tasks, id)

\* C18: a task whose push has failed is pushed again by a later pass, so
\* that it comes to exist in the store.
C18_FailedPushIsRetried == PushFailed(AddedTask) ~> HasId(remoteTasks, AddedTask)

-----------------------------------------------------------------------------
(* Properties of the local snapshot and of the active child *)

\* C19: after a local mutation (here a status change in the child portal)
\* the stored snapshot holds the children list of the device.
C19_SnapshotFollowsMutations ==
    [][\A d \in Devices :
          Portal(d) => storage'[d].stored /\ storage'[d].children = children'[d]]_vars

ActiveOnes(list) == {i \in 1..Len(list) : list[i].active}

\* C20: whenever a device holds at least one child, exactly one of its
\* children is active.
C20_ExactlyOneActive ==
    \A d \in Devices : children[d] # <<>> => Cardinality(ActiveOnes(children[d])) = 1

-----------------------------------------------------------------------------
(* Properties of the redemption history *)

\* C21: a RedemptionRecord in a child's redemptionHistory stays there while
\* the device holds the child: every step (redemption, edit, upload, full
\* re-fetch) that keeps the child keeps each of its records.
C21_HistoryIsKept ==
    [][\A d \in Devices : \A c \in Range(children[d]) :
          HasId(children'[d], c.id) =>
              Range(c.redemptionHistory) \subseteq
                  Range(Find(children'[d], c.id).redemptionHistory)]_vars

-----------------------------------------------------------------------------
(* Properties of the validation of typed times and durations *)

\* the tasks device d holds for child c after the step, beyond those before it
AddedTasks(d, c) ==
    SubSeq(Find(children'[d], c).tasks, Len(Find(children[d], c).tasks) + 1,
           Len(Find(children'[d], c).tasks))

-----------------------------------------------------------------------------
(* Properties of the time parser and formatter *)

\* C23: whatever text is rendered (null, empty, unparseable, out of range),
\* the number parseTimeToMinutes returned is a minute of the day, 0..1439.
C23_ParseGivesMinuteOfDay ==
    shown.text # <<>> => shown.minutes \in 0..(MinutesPerDay - 1)

\* C24: a text built by the formatter from a minute of the day, in the 12h or
\* the 24h mode, is parsed back to that minute.
C24_FormatThenParse ==
    [][\A view \in Views :
          shown.minutes \in 0..(MinutesPerDay - 1) /\ redisplay(view) =>
              shown'.minutes = shown.minutes]_vars

\* 13:00 was formatted in the 12h mode and the text "01:00 PM" was parsed
C24_AfternoonReadBack ==
    /\ shown.timeStr = <<"0", "1", ":", "0", "0", " ", "P", "M">>
    /\ shown.minutes = 13 * 60

\* the time of day a text accepted by isValidTime denotes: hour * 60 + minute,
\* with 12 AM as hour 0 and PM hours below 12 shifted by 12
TimeOfDay(timeStr) ==
    LET clean == ToUpperCase(Trim(timeStr))
        colon == CHOOSE i \in 1..Len(clean) : clean[i] = ":"
        hour == Numeral(SubSeq(clean, 1, colon - 1))
        minute == Numeral(SubSeq(clean, colon + 1, colon + 2))
    IN  IF Includes(clean, PM) THEN (IF hour < 12 THEN hour + 12 ELSE hour) * 60 + minute
        ELSE IF Includes(clean, AM) THEN (IF hour = 12 THEN 0 ELSE hour) * 60 + minute
        ELSE hour * 60 + minute

\* C29: for every text accepted by isValidTime, parseTimeToMinutes returns
\* the time of day the text denotes.
C29_AcceptedTimesParsedExactly ==
    shown.text # <<>> /\ isValidTime(shown.timeStr) =>
        shown.minutes = TimeOfDay(shown.timeStr)

-----------------------------------------------------------------------------
(* Properties of recurrence *)

\* the rule invariant of a recurrence
RuleOk(rule) ==
    /\ rule.frequency = "weekly" => rule.days # {} /\ rule.days \subseteq 0..6
    /\ rule.frequency = "monthly" => rule.dayOfMonth \in 1..31

\* C25: every recurrence rule stored on a task, on a device or in the
\* store, satisfies the rule invariant.
C25_StoredRulesAreValid ==
    /\ \A d \in Devices : \A c \in Range(children[d]) : \A t \in Range(c.tasks) :
          RuleOk(t.recurrence)
    /\ \A row \in Range(remoteTasks) : RuleOk(row.recurrence)

\* C26: a task with a weekly rule is notified by the due-task poll, and is
\* the schedule's current task in the portal, only on the days of its rule.
C26_WeeklyRuleHonoured ==
    [][\A d \in Devices :
          /\ checkAlarms(d) =>
                \A c \in Range(children[d]) : \A t \in Range(c.tasks) :
                    t.recurrence.frequency = "weekly" /\ t.id \in notified'[d] =>
                        getDay(now) \in t.recurrence.days
          /\ \A t \in getCurrentActiveTaskFromSchedule(d) :
                t.recurrence.frequency = "weekly" => getDay(now) \in t.recurrence.days]_vars

-----------------------------------------------------------------------------
(* Properties of the guard window *)

\* the ids a child created by saveChild can get
NewChildIds == {StartOfTime + k * ClockStep : k \in 0..MaxTicks}

\* C27: a child created by addChild on a device of a family comes to be in
\* the store without further user action, and the insert of a task added to
\* it is accepted.
C27_NewChildIsSynced ==
    /\ \A id \in NewChildIds :
          HasId(children["A"], id) ~> HasId(remoteChildren, id)
    /\ [][\A req \in net :
             /\ req.op = "tasks.insert"
             /\ req.rows[1].child_id \in NewChildIds
             /\ Deliver(req)
             => HasId(remoteTasks', req.rows[1].id)]_vars

-----------------------------------------------------------------------------
(* Properties of the sign-in *)

\* C28: a sign-in attempt whose profile fetch or profile creation times out
\* leaves currentUser as it was (not set, and not replaced by a user without
\* a family) and changes nothing of the family: the children, the fetches
\* under way, the stored snapshot and the store stay as they are.
C28_TimeoutChangesNothing ==
    [][\A d \in Devices : \A result \in {"fetch timeout", "creation timeout"} :
          onAuthStateChange(d, result) =>
              /\ currentUser' = currentUser
              /\ children' = children
              /\ fetching' = fetching
              /\ storage' = storage
              /\ migration' = migration
              /\ <<remoteChildren, remoteTasks, remoteRewards, net>>' =
                     <<remoteChildren, remoteTasks, remoteRewards, net>>]_vars

\* a signed-in device holding its family has had a sign-in attempt time out
C28_TimedOutWhileSignedIn ==
    /\ out = "error: syncProfile"
    /\ currentUser["A"] = FamilyUser("A")
    /\ children["A"] # <<>>

-----------------------------------------------------------------------------
(* Properties of the upload of an existing child *)

\* the rows of a table other than those with the given id (or child_id)
OtherRows(table, id) == FilterSeq(table, LAMBDA r : r.id # id)

\* C30: for a child the store holds, a run of uploadFamilyData goes to the
\* update of the child's own row, which changes no other row, no task, no
\* reward and sends no request; a run changes tasks or rewards only in the
\* inserts that follow its own insert of a child that was absent.
C30_ExistingChildRowOnly ==
    [][\A u \in Runs :
          LET run == uploads[u] IN
          /\ UploadCheck(u) /\ ExistingChild(Head(run.queue)) => uploads'[u].pc = "update"
          /\ UploadUpdate(u) =>
                /\ <<remoteTasks, remoteRewards, net>>' = <<remoteTasks, remoteRewards, net>>
                /\ OtherRows(remoteChildren', Head(run.queue).id) =
                       OtherRows(remoteChildren, Head(run.queue).id)
                /\ Len(remoteChildren') = Len(remoteChildren)
                /\ uploads'[u].pc \in {"check", "refetch"}
          /\ Upload(u) /\ <<remoteTasks, remoteRewards>>' # <<remoteTasks, remoteRewards>> =>
                run.pc \in {"insertTasks", "insertRewards"}
          /\ Upload(u) /\ uploads'[u].pc \in {"insertTasks", "insertRewards"}
                       /\ run.pc \notin {"insertTasks", "insertRewards"} =>
                /\ UploadInsertChild(u)
                /\ ~ExistingChild(Head(run.queue))
                /\ HasId(remoteChildren', Head(run.queue).id)]_vars

\* a run has gone through the family of the device: the child the store held
\* was updated, the child it lacked was inserted with its task
C30_RunWroteBothChildren ==
    \E u \in Runs :
        /\ uploads[u].pc = "refetch"
        /\ HasId(remoteChildren, LostChild)
        /\ \E row \in Range(remoteTasks) : row.child_id = LostChild
====
